---- MODULE Spec2Model ----
(***************************************************************************)
(* Verification model of the llm_gateway dispatch fabric: the Controller's *)
(* WorkerRegistry (controller/registry.py), the per-worker CircuitBreaker  *)
(* (controller/circuit_breaker.py) and the Router (controller/router.py),  *)
(* driven through the Controller's internal HTTP routes                    *)
(* (controller/server.py).                                                 *)
(*                                                                         *)
(* Representation.  A Python dict is a sequence of its keys in insertion   *)
(* order (iteration order is observable: min() returns the first minimum). *)
(* The registry's two indices hold references to the same WorkerRecord     *)
(* objects; objs is the heap of those objects, a reference to a record is  *)
(* its worker_id.  Optional[datetime] is <<>> (None) or <<t>>.             *)
(***************************************************************************)
EXTENDS Integers, Sequences, FiniteSets, TLC

VARIABLES
    now,               \* datetime.utcnow(), in seconds
    by_id,             \* WorkerRegistry._by_id: keys in insertion order
    by_model,          \* WorkerRegistry._by_model: model_id -> keys of the bucket
    objs,              \* the WorkerRecord objects the indices refer to
    circuit_breakers,  \* Router._circuit_breakers: worker_id -> CircuitBreaker
    cb,                \* a CircuitBreaker constructed on its own (SpecBreaker)
    streak,            \* record_failure calls on cb in a row since it was closed
                       \* with failure_count 0 (-1 once another call intervened)
    last_state_change, \* cb._last_state_change
    monitor,           \* the HealthChecker and the position of its task
    scans,             \* worker_id -> the scans that found the record stale
    snapshot,          \* a returned snapshot of the registry, held by its caller
    requests,          \* the chat-completion requests of the Controller
    agent,             \* the worker's RegistrationClient
    proxied,           \* the chat-completion requests of the worker's ProxyHandler
    observed,          \* the calls whose outcome ret records
    ret                \* the last observed call and what it returned or raised

vars == <<now, by_id, by_model, objs, circuit_breakers, cb, streak,
          last_state_change, monitor, scans, snapshot, requests, agent, proxied,
          observed, ret>>
registry == <<by_id, by_model, objs>>

----------------------------------------------------------------------------
(* Input domains and bounds *)

WorkerIds == {"w1", "w2"}
ModelIds == {"llama3", "mistral"}
Endpoints == {"http://localhost:8001"}
Statuses == {"healthy", "unhealthy", "draining"}

\* Advertised capacities and reported loads: an idle worker, a worker at
\* capacity, and loaded workers whose ratios are close to one another.
Capacities == {99999999, 100000000}
Loads == {0, 99999998, 99999999}

ConfiguredCapacity == [w \in WorkerIds |-> IF w = "w1" THEN 100000000 ELSE 99999999]

ConfiguredModels == [w \in WorkerIds |-> {"llama3"}]

\* the workers whose requests fail
FailingWorkers == {"w1"}

\* failure_threshold and recovery_timeout a CircuitBreaker is constructed with
\* on its own (the tests construct CircuitBreaker(3, 1))
MaxThreshold == 3
Timeouts == {1, 30}

\* failure_count grows without bound while a breaker stays open; the model
\* stops recording failures on a breaker that has counted this many.
MaxFailureCount == 6

----------------------------------------------------------------------------
(* Dicts as key sequences *)

Range(s) == {s[i] : i \in 1..Len(s)}

\* del d[k] / d.pop(k, None)
DictPop(s, k) == SelectSeq(s, LAMBDA x : x # k)

\* d[k] = v: a new key goes last, an existing key keeps its place
DictSet(s, k) == IF k \in Range(s) THEN s ELSE Append(s, k)

\* the records the garbage collector keeps: those an index still refers to
Referenced(bid, bm) == Range(bid) \cup UNION {Range(bm[m]) : m \in DOMAIN bm}

Collect(o, bid, bm) == [w \in (DOMAIN o) \cap Referenced(bid, bm) |-> o[w]]

----------------------------------------------------------------------------
(* controller/models.py *)

None == <<>>
Some(t) == <<t>>

\* WorkerRecord(worker_id, model_id, endpoint, capacity, metadata) as
\* server.register_worker constructs it; metadata is opaque and omitted.
WorkerRecord(worker_id, model_id, endpoint, capacity, t) ==
    [worker_id |-> worker_id,
     model_id |-> model_id,
     endpoint |-> endpoint,
     status |-> "healthy",
     last_heartbeat |-> Some(t),
     capacity |-> capacity,
     current_load |-> 0,
     circuit_state |-> "closed",
     failure_count |-> 0,
     last_failure |-> None]

----------------------------------------------------------------------------
(* controller/registry.py: each method runs under self._lock and never     *)
(* suspends while holding it, so each is one atomic step.  A method is an  *)
(* operator from the registry value reg = [by_id, by_model, objs] to the   *)
(* registry value after the call, with the exception raised ("" if none).  *)

Reg == [by_id |-> by_id, by_model |-> by_model, objs |-> objs, exc |-> ""]

Raise(reg, e) == [reg EXCEPT !.exc = e]

\* self._by_model[model_id][worker_id] = record, creating the bucket
BucketInsert(bm, model_id, worker_id) ==
    IF model_id \notin DOMAIN bm
        THEN bm @@ (model_id :> <<worker_id>>)
        ELSE [bm EXCEPT ![model_id] = DictSet(@, worker_id)]

\* BucketRemove without the deletion of the emptied bucket
BucketRemoveKeepsEmpty(bm, model_id, worker_id) ==
    IF model_id \notin DOMAIN bm
        THEN bm
        ELSE [bm EXCEPT ![model_id] = DictPop(@, worker_id)]

\* pop worker_id from its model's bucket and delete the bucket once empty
BucketRemove(bm, model_id, worker_id) ==
    IF model_id \notin DOMAIN bm
        THEN bm
        ELSE LET bucket == DictPop(bm[model_id], worker_id)
             IN  IF bucket = <<>>
                     THEN [m \in (DOMAIN bm) \ {model_id} |-> bm[m]]
                     ELSE [bm EXCEPT ![model_id] = bucket]

\* register_worker without the test for a present worker_id: the dict
\* assignments replace the record the id had
register_worker_overwrites(reg, record) ==
    [by_id |-> DictSet(reg.by_id, record.worker_id),
     by_model |-> BucketInsert(reg.by_model, record.model_id, record.worker_id),
     objs |-> (record.worker_id :> record) @@ reg.objs,
     exc |-> ""]

register_worker(reg, record) ==
    IF record.worker_id \in Range(reg.by_id)
        THEN Raise(reg, "ValueError")
        ELSE [by_id |-> Append(reg.by_id, record.worker_id),
              by_model |-> BucketInsert(reg.by_model, record.model_id, record.worker_id),
              objs |-> (record.worker_id :> record) @@ reg.objs,
              exc |-> ""]

\* unregister_worker whose forced branch deletes from by_id alone
unregister_worker_by_id_only(reg, worker_id, force) ==
    IF worker_id \notin Range(reg.by_id)
        THEN Raise(reg, "KeyError")
        ELSE IF force
            THEN [reg EXCEPT !.by_id = DictPop(@, worker_id)]
            ELSE [reg EXCEPT !.objs[worker_id].status = "draining"]

unregister_worker(reg, worker_id, force) ==
    IF worker_id \notin Range(reg.by_id)
        THEN Raise(reg, "KeyError")
        ELSE LET record == reg.objs[worker_id]
             IN  IF force
                     THEN LET bid == DictPop(reg.by_id, worker_id)
                              bm == BucketRemove(reg.by_model, record.model_id, worker_id)
                          IN  [by_id |-> bid,
                               by_model |-> bm,
                               objs |-> Collect(reg.objs, bid, bm),
                               exc |-> ""]
                     ELSE [reg EXCEPT !.objs[worker_id].status = "draining"]

\* update_heartbeat that stores the reported load as the capacity too
update_heartbeat_sets_capacity(reg, worker_id, current_load, status, t) ==
    IF worker_id \notin Range(reg.by_id)
        THEN Raise(reg, "KeyError")
        ELSE [reg EXCEPT !.objs[worker_id].last_heartbeat = Some(t),
                         !.objs[worker_id].current_load = current_load,
                         !.objs[worker_id].capacity = current_load,
                         !.objs[worker_id].status = status]

\* update_heartbeat without the assignment of current_load
update_heartbeat_keeps_load(reg, worker_id, current_load, status, t) ==
    IF worker_id \notin Range(reg.by_id)
        THEN Raise(reg, "KeyError")
        ELSE [reg EXCEPT !.objs[worker_id].last_heartbeat = Some(t),
                         !.objs[worker_id].status = status]

update_heartbeat(reg, worker_id, current_load, status, t) ==
    IF worker_id \notin Range(reg.by_id)
        THEN Raise(reg, "KeyError")
        ELSE [reg EXCEPT !.objs[worker_id].last_heartbeat = Some(t),
                         !.objs[worker_id].current_load = current_load,
                         !.objs[worker_id].status = status]

\* mark_unhealthy raising KeyError for an absent worker_id
mark_unhealthy_strict(reg, worker_id) ==
    IF worker_id \in Range(reg.by_id)
        THEN [reg EXCEPT !.objs[worker_id].status = "unhealthy"]
        ELSE Raise(reg, "KeyError")

mark_unhealthy(reg, worker_id) ==
    IF worker_id \in Range(reg.by_id)
        THEN [reg EXCEPT !.objs[worker_id].status = "unhealthy"]
        ELSE reg

\* remove_worker that pops the record from by_id alone
remove_worker_by_id_only(reg, worker_id) ==
    [reg EXCEPT !.by_id = DictPop(@, worker_id)]

remove_worker(reg, worker_id) ==
    IF worker_id \notin Range(reg.by_id)
        THEN reg
        ELSE LET record == reg.objs[worker_id]
                 bid == DictPop(reg.by_id, worker_id)
                 bm == BucketRemove(reg.by_model, record.model_id, worker_id)
             IN  [by_id |-> bid,
                  by_model |-> bm,
                  objs |-> Collect(reg.objs, bid, bm),
                  exc |-> ""]

\* list(self._by_model.get(model_id, {}).values()): references, in bucket order
get_workers_for_model(reg, model_id) ==
    IF model_id \in DOMAIN reg.by_model THEN reg.by_model[model_id] ELSE <<>>

\* self._by_id.get(worker_id): the record, or None
get_worker(reg, worker_id) ==
    IF worker_id \in Range(reg.by_id) THEN Some(reg.objs[worker_id]) ELSE None

\* WorkerInfo(...): the copy of a record's fields list_workers reports
WorkerInfo(w) ==
    [worker_id |-> w.worker_id,
     model_id |-> w.model_id,
     endpoint |-> w.endpoint,
     status |-> w.status,
     current_load |-> w.current_load,
     capacity |-> w.capacity,
     circuit_state |-> w.circuit_state,
     last_heartbeat |-> w.last_heartbeat]

\* list_workers(model_id); model_id "" stands for the falsy None
list_workers(reg, model_id) ==
    LET keys == IF model_id # ""
                    THEN IF model_id \in DOMAIN reg.by_model
                             THEN reg.by_model[model_id] ELSE <<>>
                    ELSE reg.by_id
        worker_infos == [i \in 1..Len(keys) |-> WorkerInfo(reg.objs[keys[i]])]
    IN  [workers |-> worker_infos, total |-> Len(worker_infos)]

----------------------------------------------------------------------------
(* WorkerRecord.load_ratio: current_load / capacity is Python's true       *)
(* division of two ints, the correctly rounded IEEE-754 binary64 quotient. *)
(* A float is <<kind, exponent, hi, lo>>: kind 0 is 0.0, kind 1 a positive *)
(* finite value whose 53-bit significand is hi * 2^27 + lo (hi its top 26  *)
(* bits) scaled so that the leading bit weighs 2^exponent, kind 2 is inf.  *)
(* Floats of this shape are ordered lexicographically.  The quotient is    *)
(* computed by long division for 0 <= current_load and 0 < capacity, both  *)
(* below 2^30 (the loads and capacities of the data model; the doubled     *)
(* remainder then fits the checker's integers).                            *)

Float0 == <<0, 0, 0, 0>>
FloatInf == <<2, 0, 0, 0>>

FloatLess(x, y) ==
    \/ x[1] < y[1]
    \/ x[1] = y[1] /\ x[2] < y[2]
    \/ x[1] = y[1] /\ x[2] = y[2] /\ x[3] < y[3]
    \/ x[1] = y[1] /\ x[2] = y[2] /\ x[3] = y[3] /\ x[4] < y[4]

\* append one significand bit: the first 26 go to hi, the next 27 to lo
PushBit(acc, bit) ==
    IF acc.n < 26
        THEN [acc EXCEPT !.hi = 2 * @ + bit, !.n = @ + 1]
        ELSE [acc EXCEPT !.lo = 2 * @ + bit, !.n = @ + 1]

RECURSIVE BitLength(_)
BitLength(q) == IF q = 0 THEN 0 ELSE 1 + BitLength(q \div 2)

\* the bits of the integer part q, most significant first (i bits are left)
RECURSIVE PushInt(_, _, _)
PushInt(acc, q, i) ==
    IF i = 0 THEN acc
    ELSE PushInt(PushBit(acc, (q \div (2 ^ (i - 1))) % 2), q, i - 1)

\* round to nearest, ties to even, on the bit after the significand (round)
\* and on whether anything nonzero follows it (sticky)
RoundNearestEven(e, acc, round, sticky) ==
    IF round = 1 /\ (sticky \/ acc.lo % 2 = 1)
        THEN IF acc.lo + 1 < 2 ^ 27
                 THEN <<1, e, acc.hi, acc.lo + 1>>
                 ELSE IF acc.hi + 1 < 2 ^ 26
                          THEN <<1, e, acc.hi + 1, 0>>
                          ELSE <<1, e + 1, 2 ^ 25, 0>>
        ELSE <<1, e, acc.hi, acc.lo>>

\* the fraction bits of r / b by long division; e is the weight of the next
\* bit while no significant bit has been seen, of the leading bit afterwards
RECURSIVE FracBits(_, _, _, _)
FracBits(acc, e, r, b) ==
    LET bit == IF 2 * r >= b THEN 1 ELSE 0
        rest == 2 * r - bit * b
    IN  IF acc.n = 53 THEN RoundNearestEven(e, acc, bit, rest # 0)
        ELSE IF acc.n = 0 /\ bit = 0 THEN FracBits(acc, e - 1, rest, b)
        ELSE FracBits(PushBit(acc, bit), e, rest, b)

TrueDiv(a, b) ==
    IF a = 0 THEN Float0
    ELSE LET q == a \div b
             nb == BitLength(q)
             acc == PushInt([hi |-> 0, lo |-> 0, n |-> 0], q, nb)
         IN  FracBits(acc, IF nb > 0 THEN nb - 1 ELSE -1, a % b, b)

load_ratio(record) ==
    IF record.capacity <= 0 THEN FloatInf
    ELSE TrueDiv(record.current_load, record.capacity)

----------------------------------------------------------------------------
(* controller/circuit_breaker.py.  A CircuitBreaker is a record; a method  *)
(* is an operator to the breaker after the call, t being utcnow().         *)
(* _last_state_change is written and never read: it is omitted.            *)

failure_threshold == 5
recovery_timeout == 30

CircuitBreaker(F, T) ==
    [failure_threshold |-> F,
     recovery_timeout |-> T,
     state |-> "closed",
     failure_count |-> 0,
     last_failure |-> None]

\* _transition_to that leaves last_failure as it is
transition_to_keeps_last_failure(b, new_state) ==
    IF new_state = "closed"
        THEN [b EXCEPT !.state = new_state, !.failure_count = 0]
        ELSE [b EXCEPT !.state = new_state]

transition_to(b, new_state) ==
    IF new_state = "closed"
        THEN [b EXCEPT !.state = new_state, !.failure_count = 0, !.last_failure = None]
        ELSE [b EXCEPT !.state = new_state]

\* record_success that closes an open breaker as it closes a half-open one
record_success_closes_open(b) ==
    IF b.state \in {"half_open", "open"} THEN transition_to(b, "closed")
    ELSE IF b.state = "closed" THEN [b EXCEPT !.failure_count = 0]
    ELSE b

\* record_success that closes a half-open circuit and never clears the count
record_success_keeps_count(b) ==
    IF b.state = "half_open" THEN [b EXCEPT !.state = "closed"] ELSE b

record_success(b) ==
    IF b.state = "half_open" THEN transition_to(b, "closed")
    ELSE IF b.state = "closed" THEN [b EXCEPT !.failure_count = 0]
    ELSE b

\* record_failure that leaves last_failure as it is
record_failure_keeps_last_failure(b, t) ==
    LET b1 == [b EXCEPT !.failure_count = @ + 1]
    IN  IF b1.state = "half_open" THEN transition_to(b1, "open")
        ELSE IF b1.state = "closed" /\ b1.failure_count >= b1.failure_threshold
            THEN transition_to(b1, "open")
        ELSE b1

\* record_failure with > for >= in the test of the threshold
record_failure_off_by_one(b, t) ==
    LET b1 == [b EXCEPT !.failure_count = @ + 1, !.last_failure = Some(t)]
    IN  IF b1.state = "half_open" THEN transition_to(b1, "open")
        ELSE IF b1.state = "closed" /\ b1.failure_count > b1.failure_threshold
            THEN transition_to(b1, "open")
        ELSE b1

record_failure(b, t) ==
    LET b1 == [b EXCEPT !.failure_count = @ + 1, !.last_failure = Some(t)]
    IN  IF b1.state = "half_open" THEN transition_to(b1, "open")
        ELSE IF b1.state = "closed" /\ b1.failure_count >= b1.failure_threshold
            THEN transition_to(b1, "open")
        ELSE b1

\* _should_attempt_recovery with > for >=
should_attempt_recovery_strict(b, t) ==
    \/ b.last_failure = None
    \/ t - b.last_failure[1] > b.recovery_timeout

should_attempt_recovery(b, t) ==
    IF b.last_failure = None THEN TRUE
    ELSE t - b.last_failure[1] >= b.recovery_timeout

\* is_available that refuses requests while half-open
is_available_half_open_refuses(b, t) ==
    IF b.state = "closed" THEN [cb |-> b, result |-> TRUE]
    ELSE IF b.state = "open"
        THEN IF should_attempt_recovery(b, t)
                 THEN [cb |-> transition_to(b, "half_open"), result |-> TRUE]
                 ELSE [cb |-> b, result |-> FALSE]
    ELSE [cb |-> b, result |-> FALSE]

\* is_available that lets requests through an open circuit
is_available_ignores_open(b, t) == [cb |-> b, result |-> TRUE]

\* the breaker after the query, and the value returned
is_available(b, t) ==
    IF b.state = "closed" THEN [cb |-> b, result |-> TRUE]
    ELSE IF b.state = "open"
        THEN IF should_attempt_recovery(b, t)
                 THEN [cb |-> transition_to(b, "half_open"), result |-> TRUE]
                 ELSE [cb |-> b, result |-> FALSE]
    ELSE [cb |-> b, result |-> TRUE]

\* reset that closes the circuit and keeps the failures counted
reset_keeps_count(b) == [b EXCEPT !.state = "closed"]

reset(b) == transition_to(b, "closed")

----------------------------------------------------------------------------
(* controller/router.py.  A method is an operator from the breaker map     *)
(* cbs (and the registry value) to the breaker map after the call.         *)

\* the map after _get_circuit_breaker(worker_id): a missing breaker is created
get_circuit_breaker(cbs, worker_id) ==
    IF worker_id \in DOMAIN cbs
        THEN cbs
        ELSE cbs @@ (worker_id :> CircuitBreaker(failure_threshold, recovery_timeout))

\* the breaker map after the loop of select_worker has fetched (or created)
\* and queried the breaker of each of the workers, one after the other
RECURSIVE PollBreakers(_, _, _)
PollBreakers(cbs, workers, t) ==
    IF workers = <<>> THEN cbs
    ELSE LET w == Head(workers)
             c1 == get_circuit_breaker(cbs, w)
         IN  PollBreakers([c1 EXCEPT ![w] = is_available(c1[w], t).cb], Tail(workers), t)

\* min(seq, key) returning the last of the elements with the least key
RECURSIVE MinByKeyLast(_, _, _)
MinByKeyLast(best, rest, o) ==
    IF rest = <<>> THEN best
    ELSE IF ~FloatLess(load_ratio(o[best]), load_ratio(o[Head(rest)]))
        THEN MinByKeyLast(Head(rest), Tail(rest), o)
        ELSE MinByKeyLast(best, Tail(rest), o)

\* min(seq, key): the first element no later element's key is below
RECURSIVE MinByKey(_, _, _)
MinByKey(best, rest, o) ==
    IF rest = <<>> THEN best
    ELSE IF FloatLess(load_ratio(o[Head(rest)]), load_ratio(o[best]))
        THEN MinByKey(Head(rest), Tail(rest), o)
        ELSE MinByKey(best, Tail(rest), o)

\* the filter loop without the test of the status
passes_filter_any_status(reg, cbs, w, t) ==
    is_available(get_circuit_breaker(cbs, w)[w], t).result

\* the test of the filter loop: cb.is_available() and worker.status == "healthy"
passes_filter(reg, cbs, w, t) ==
    /\ is_available(get_circuit_breaker(cbs, w)[w], t).result
    /\ reg.objs[w].status = "healthy"

\* the capacity filter with <= for <
below_capacity_or_at(record) == record.current_load <= record.capacity

\* the test of the capacity filter: w.current_load < w.capacity
below_capacity(record) == record.current_load < record.capacity

\* select_worker with the capacity filter applied before the availability
\* filter: workers that are all at capacity raise AllWorkersAtCapacityError
\* whether or not any of them is available
select_worker_capacity_first(reg, cbs, model_id, t) ==
    LET workers == get_workers_for_model(reg, model_id)
        polled == PollBreakers(cbs, workers, t)
        at_capacity == SelectSeq(workers, LAMBDA w : below_capacity(reg.objs[w]))
        available_workers ==
            SelectSeq(at_capacity, LAMBDA w : passes_filter(reg, cbs, w, t))
    IN  IF workers = <<>>
            THEN [circuit_breakers |-> cbs, selected |-> "",
                  exc |-> "NoWorkerAvailableError"]
        ELSE IF at_capacity = <<>>
            THEN [circuit_breakers |-> polled, selected |-> "",
                  exc |-> "AllWorkersAtCapacityError"]
        ELSE IF available_workers = <<>>
            THEN [circuit_breakers |-> polled, selected |-> "",
                  exc |-> "NoWorkerAvailableError"]
        ELSE [circuit_breakers |-> polled,
              selected |-> MinByKey(Head(available_workers), Tail(available_workers),
                                    reg.objs),
              exc |-> ""]

\* [circuit_breakers, selected, exc]: the breaker map after the call, the
\* worker returned ("" when it raises) and the exception raised ("" if none).
\* No worker is twice in a bucket, so each breaker is queried once, in the
\* state the call found it in.
select_worker(reg, cbs, model_id, t) ==
    LET workers == get_workers_for_model(reg, model_id)
        polled == PollBreakers(cbs, workers, t)
        available_workers ==
            SelectSeq(workers, LAMBDA w : passes_filter(reg, cbs, w, t))
        at_capacity ==
            SelectSeq(available_workers, LAMBDA w : below_capacity(reg.objs[w]))
    IN  IF workers = <<>>
            THEN [circuit_breakers |-> cbs, selected |-> "",
                  exc |-> "NoWorkerAvailableError"]
        ELSE IF available_workers = <<>>
            THEN [circuit_breakers |-> polled, selected |-> "",
                  exc |-> "NoWorkerAvailableError"]
        ELSE IF at_capacity = <<>>
            THEN [circuit_breakers |-> polled, selected |-> "",
                  exc |-> "AllWorkersAtCapacityError"]
        ELSE [circuit_breakers |-> polled,
              selected |-> MinByKey(Head(at_capacity), Tail(at_capacity), reg.objs),
              exc |-> ""]

router_record_success(cbs, worker_id) ==
    LET c1 == get_circuit_breaker(cbs, worker_id)
    IN  [c1 EXCEPT ![worker_id] = record_success(@)]

\* record_failure that ignores a worker the Router has no breaker for
router_record_failure_known_only(cbs, worker_id, t) ==
    IF worker_id \in DOMAIN cbs
        THEN [cbs EXCEPT ![worker_id] = record_failure(@, t)]
        ELSE cbs

router_record_failure(cbs, worker_id, t) ==
    LET c1 == get_circuit_breaker(cbs, worker_id)
    IN  [c1 EXCEPT ![worker_id] = record_failure(@, t)]

\* LLMGatewayError.status_code of the two routing errors
status_code(exc) ==
    IF exc = "NoWorkerAvailableError" THEN 404
    ELSE IF exc = "AllWorkersAtCapacityError" THEN 503
    ELSE 0

----------------------------------------------------------------------------
(* controller/health.py.  The HealthChecker's task suspends at the probe   *)
(* (an HTTP request) and in asyncio.sleep; the registry calls it awaits    *)
(* never suspend, the lock being free.  The task is therefore in one of    *)
(* two positions: asleep between two scans (pc "sleep") or waiting for the *)
(* probe of monitor.worker_id (pc "probe"), with the rest of the snapshot  *)
(* it iterates over in monitor.workers.                                    *)

heartbeat_timeout == 60
probe_failures_threshold == 3

\* HealthChecker(registry, heartbeat_timeout, check_interval), started
HealthChecker ==
    [pc |-> "sleep", worker_id |-> "", endpoint |-> "", workers |-> <<>>,
     probe_failures |-> <<>>]

\* the test of _check_workers for one WorkerInfo of the snapshot
\* the test of _check_workers, passing over every worker that is not healthy
timed_out_healthy_only(worker_info, t) ==
    /\ worker_info.status = "healthy"
    /\ worker_info.last_heartbeat # None
    /\ t - worker_info.last_heartbeat[1] > heartbeat_timeout

timed_out(worker_info, t) ==
    /\ worker_info.status # "draining"
    /\ worker_info.last_heartbeat # None
    /\ t - worker_info.last_heartbeat[1] > heartbeat_timeout

\* the for loop of _check_workers over the snapshot, up to the probe of the
\* first worker that timed out, or to the end
RECURSIVE check_loop(_, _, _)
check_loop(h, workers, t) ==
    IF workers = <<>>
        THEN [h EXCEPT !.pc = "sleep", !.worker_id = "", !.endpoint = "",
                       !.workers = <<>>]
    ELSE IF timed_out(Head(workers), t)
        THEN [h EXCEPT !.pc = "probe", !.worker_id = Head(workers).worker_id,
                       !.endpoint = Head(workers).endpoint,
                       !.workers = Tail(workers)]
    ELSE check_loop(h, Tail(workers), t)

\* _check_workers up to its first suspension
check_workers(h, reg, t) == check_loop(h, list_workers(reg, "").workers, t)

\* self._probe_failures.pop(worker_id, None)
PopFailures(pf, worker_id) == [w \in (DOMAIN pf) \ {worker_id} |-> pf[w]]

\* the branch of _handle_timeout for a failed probe, removing at threshold
probe_failed(h, reg, worker_id, threshold) ==
    LET failures ==
            (IF worker_id \in DOMAIN h.probe_failures
                 THEN h.probe_failures[worker_id] ELSE 0) + 1
    IN  IF failures >= threshold
            THEN [registry |-> remove_worker(reg, worker_id),
                  probe_failures |-> PopFailures(h.probe_failures, worker_id)]
            ELSE [registry |-> mark_unhealthy(reg, worker_id),
                  probe_failures |-> (worker_id :> failures) @@ h.probe_failures]

\* the branch of _handle_timeout for a probe that succeeded
probe_succeeded(h, reg, worker_id) ==
    [registry |-> mark_unhealthy(reg, worker_id),
     probe_failures |-> PopFailures(h.probe_failures, worker_id)]

\* _handle_timeout that keeps no count but that of the worker probed
handle_timeout_single_count(h, reg, worker_id, healthy) ==
    LET r == IF healthy
                 THEN probe_succeeded(h, reg, worker_id)
                 ELSE probe_failed(h, reg, worker_id, probe_failures_threshold)
    IN  [r EXCEPT !.probe_failures =
             [w \in (DOMAIN r.probe_failures) \cap {worker_id} |-> r.probe_failures[w]]]

\* _handle_timeout that removes one failed probe later
handle_timeout_late(h, reg, worker_id, healthy) ==
    IF healthy
        THEN probe_succeeded(h, reg, worker_id)
        ELSE probe_failed(h, reg, worker_id, probe_failures_threshold + 1)

\* _handle_timeout that marks the worker healthy when its probe succeeds
handle_timeout_restores(h, reg, worker_id, healthy) ==
    IF healthy
        THEN [registry |->
                  IF worker_id \in Range(reg.by_id)
                      THEN [reg EXCEPT !.objs[worker_id].status = "healthy"]
                      ELSE reg,
              probe_failures |-> PopFailures(h.probe_failures, worker_id)]
        ELSE probe_failed(h, reg, worker_id, probe_failures_threshold)

\* _handle_timeout from the return of the probe: the registry and the
\* failure counts after it
handle_timeout(h, reg, worker_id, healthy) ==
    IF healthy
        THEN probe_succeeded(h, reg, worker_id)
        ELSE probe_failed(h, reg, worker_id, probe_failures_threshold)

----------------------------------------------------------------------------
(* controller/server.py: chat_completions and _proxy_stream, from the     *)
(* worker's answer to the end of the request.                             *)

\* how the forwarded call of a unary request ends: a 2xx answer whose body
\* response.json() decodes, a 2xx answer whose body it does not, a non-2xx
\* answer, an exception of the transport
UnaryOutcomes == {"2xx", "2xx_undecodable", "non_2xx", "transport_error"}

\* how a stream ends: the backend's bytes run out, a non-2xx answer, an
\* exception before or between chunks, the client going away (CancelledError
\* or GeneratorExit raised at the generator's suspension)
StreamOutcomes ==
    {"eof", "non_2xx", "transport_error", "mid_stream_error", "cancelled"}

\* the Router calls the try block of chat_completions makes, in order:
\* record_success precedes response.json() inside the try block, and the
\* decode error is one more Exception
unary_reports(outcome) ==
    CASE outcome = "2xx" -> <<"record_success">>
      [] outcome = "2xx_undecodable" -> <<"record_success", "record_failure">>
      [] OTHER -> <<"record_failure">>

\* the Router calls _proxy_stream makes: CancelledError and GeneratorExit
\* are not Exceptions, and pass the except clause
stream_reports(outcome) ==
    CASE outcome = "eof" -> <<"record_success">>
      [] outcome = "cancelled" -> <<>>
      [] OTHER -> <<"record_failure">>

RECURSIVE report(_, _, _, _)
\* the Router after the calls of reports, made in order for worker_id
report(breakers, worker_id, reports, t) ==
    IF reports = <<>> THEN breakers
    ELSE report(IF Head(reports) = "record_success"
                    THEN router_record_success(breakers, worker_id)
                    ELSE router_record_failure(breakers, worker_id, t),
                worker_id, Tail(reports), t)

----------------------------------------------------------------------------
(* worker/registration.py and worker/proxy.py.  increment_load and        *)
(* decrement_load are synchronous methods: each runs without suspension.  *)

retry_count == 30
retry_delay == 5

\* RegistrationClient(..., retry_count=rc, retry_delay=rd) with the position
\* of its tasks: pc is where start() or stop() stands, heartbeat_task where
\* the heartbeat task stands ("None" before it is created), attempt and delay
\* are the locals of _register_with_retry.  The waits slept and the numbers
\* of registration POSTs and DELETEs sent are kept for the claims.
RegistrationClient(rc, rd) ==
    [retry_count |-> rc,
     retry_delay |-> rd,
     client |-> "None",
     current_load |-> 0,
     running |-> FALSE,
     heartbeat_task |-> "None",
     registered |-> FALSE,
     pc |-> "new",
     attempt |-> 0,
     delay |-> rd,
     waits |-> <<>>,
     registrations |-> 0,
     deletes |-> 0]

Min(a, b) == IF a < b THEN a ELSE b

\* start() after _register_with_retry() returned: create_task(_heartbeat_loop())
launch_heartbeat(a) ==
    [a EXCEPT !.heartbeat_task = "created", !.pc = "started"]

\* start() up to its first suspension: the range of attempts is empty when
\* retry_count < 1, and _register_with_retry() returns at once
start(a) ==
    LET b == [a EXCEPT !.client = "open", !.running = TRUE,
                       !.delay = a.retry_delay]
    IN  IF b.retry_count >= 1
            THEN [b EXCEPT !.attempt = 1, !.pc = "registering",
                           !.registrations = @ + 1]
            ELSE launch_heartbeat(b)

\* the registration POST of the current attempt returns: accepted, or an
\* exception (transport error or raise_for_status)
register_returns(a, accepted) ==
    IF accepted
        THEN launch_heartbeat([a EXCEPT !.registered = TRUE])
        ELSE IF a.attempt = a.retry_count
                 THEN [a EXCEPT !.pc = "start_failed"]
                 ELSE [a EXCEPT !.pc = "backoff",
                                !.waits = Append(@, a.delay)]

backoff(delay) == Min(delay * 2, 60)

\* asyncio.sleep(delay) returns: the next attempt is made
sleep_returns(a) ==
    [a EXCEPT !.delay = backoff(a.delay), !.attempt = @ + 1,
              !.pc = "registering", !.registrations = @ + 1]

\* the outcomes of a heartbeat POST and of the deregistration DELETE
HttpOutcomes == {"2xx", "404", "non_2xx", "error"}

\* _heartbeat_loop at its while test
heartbeat_runs(a) ==
    [a EXCEPT !.heartbeat_task = IF a.running THEN "posting" ELSE "done"]

\* a heartbeat loop that ends when the Controller answers 404
heartbeat_returns_ends_on_404(a, outcome) ==
    [a EXCEPT !.heartbeat_task = IF outcome = "404" THEN "done" ELSE "sleeping"]

\* _send_heartbeat() returns or raises: the exception is logged, and the
\* loop sleeps heartbeat_interval
heartbeat_returns(a, outcome) == [a EXCEPT !.heartbeat_task = "sleeping"]

\* stop() closing the client
close(a) ==
    [a EXCEPT !.client = IF @ = "None" THEN @ ELSE "closed", !.pc = "stopped"]

\* stop() that sends the DELETE whether registered or not
deregister_always(a) ==
    [a EXCEPT !.pc = "deregistering", !.deletes = @ + 1]

\* stop() once the heartbeat task is over
deregister(a) ==
    IF a.registered /\ a.client # "None"
        THEN [a EXCEPT !.pc = "deregistering", !.deletes = @ + 1]
        ELSE close(a)

\* stop() up to its first suspension
stop(a) ==
    LET b == [a EXCEPT !.running = FALSE]
    IN  IF b.heartbeat_task \in {"created", "posting", "sleeping"}
            THEN [b EXCEPT !.pc = "cancelling"]
            ELSE deregister(b)

\* the heartbeat task receives CancelledError at its suspension (or before
\* its first step) and ends; stop(), awaiting it, goes on
task_cancelled(a) == deregister([a EXCEPT !.heartbeat_task = "cancelled"])

\* the DELETE returns or raises: the exception is logged
delete_returns(a, outcome) == close(a)

\* no request has been made yet
NoRequests == <<>>

increment_load(a) == [a EXCEPT !.current_load = @ + 1]

\* decrement_load without the clamp at zero
decrement_load_unclamped(a) == [a EXCEPT !.current_load = @ - 1]

decrement_load(a) ==
    [a EXCEPT !.current_load = IF @ - 1 > 0 THEN @ - 1 ELSE 0]

\* the outcomes of a proxied backend call
ProxyOutcomes == {"2xx", "non_2xx", "timeout", "error", "abandoned"}

\* the finally clause skipped when the stream is abandoned
proxy_exit_leaks(a, outcome) ==
    IF outcome = "abandoned" THEN a ELSE decrement_load(a)

\* the exit of proxy_chat_completion and proxy_chat_completion_stream: the
\* exception, if any, is re-raised or propagates, GeneratorExit and
\* CancelledError included, and the finally clause runs
proxy_exit(a, outcome) == decrement_load(a)

----------------------------------------------------------------------------
(* The calls.  ret records the last call when it is an observed one: its   *)
(* name, the worker or model id it was made with, the exception the        *)
(* registry or router raised, the HTTP status of the route (0 for a direct *)
(* call) and, for select_worker, the worker returned.  After any other     *)
(* call ret is Quiet.                                                      *)

Quiet == [op |-> "", id |-> "", exc |-> "", code |-> 0, out |-> ""]

Ret(op, id, exc, code, out) ==
    IF op \in observed
        THEN [op |-> op, id |-> id, exc |-> exc, code |-> code, out |-> out]
        ELSE Quiet

RegistryCalls ==
    {"register_worker", "unregister_worker", "unregister_worker_force",
     "update_heartbeat", "mark_unhealthy", "remove_worker",
     "register_then_unregister"}
RouterCalls == {"select_worker", "record_success", "record_failure"}
BreakerCalls ==
    {"cb.record_success", "cb.record_failure", "cb.is_available", "cb.reset"}
MonitorCalls == {"_check_workers", "_handle_timeout", "select_worker"}
SnapshotCalls == {"get_workers_for_model", "list_workers"}
LoadCalls == {"increment_load", "decrement_load", "proxy_begins", "proxy_ends"}
ChatCalls == {"chat_completions"}
AgentCalls ==
    {"start", "register", "sleep", "heartbeat_runs", "heartbeat", "stop",
     "cancelled", "deregister"}

\* A held snapshot is a sequence of elements: a reference to a WorkerRecord
\* of the registry (live, ref its worker_id) or a value that belongs to the
\* snapshot alone (a copy, or a record the registry no longer refers to),
\* each with the value seen in it when the snapshot was returned.
Held(reference, record) ==
    [live |-> reference, ref |-> record.worker_id, value |-> record, seen |-> record]

\* what reading the element gives now
Read(element) == IF element.live THEN objs[element.ref] ELSE element.value

\* the held snapshot once the registry is r: a record that r dropped lives
\* on in the snapshot as it was
Keep(held, r) ==
    [i \in 1..Len(held) |->
        IF held[i].live /\ held[i].ref \notin Range(r.by_id)
            THEN [held[i] EXCEPT !.live = FALSE, !.value = objs[held[i].ref]]
            ELSE held[i]]

SetRegistry(r) ==
    /\ by_id' = r.by_id
    /\ by_model' = r.by_model
    /\ objs' = r.objs
    /\ snapshot' = Keep(snapshot, r)

\* the instants at which calls are made: around the recovery window
Instants == {0, recovery_timeout - 1, recovery_timeout}

\* time passes between two calls: no call has just returned
Tick ==
    /\ \E t \in Instants : t > now /\ now' = t
    /\ ret' = Quiet
    /\ UNCHANGED <<by_id, by_model, objs, circuit_breakers, cb, streak, last_state_change, monitor, scans, observed,
                   snapshot, requests, agent, proxied>>

\* POST /internal/workers/register
RegisterWorker(worker_id, model_id, endpoint, capacity) ==
    LET record == WorkerRecord(worker_id, model_id, endpoint, capacity, now)
        r == register_worker(Reg, record)
    IN  /\ SetRegistry(r)
        /\ ret' = Ret("register_worker", worker_id, r.exc,
                      IF r.exc = "ValueError" THEN 409 ELSE 201, "")
        /\ UNCHANGED <<now, circuit_breakers, cb, streak, last_state_change, monitor, scans, observed,
                   requests, agent, proxied>>

\* POST /internal/workers/heartbeat
WorkerHeartbeat(worker_id, current_load, status) ==
    LET r == update_heartbeat(Reg, worker_id, current_load, status, now)
    IN  /\ SetRegistry(r)
        /\ ret' = Ret("update_heartbeat", worker_id, r.exc,
                      IF r.exc = "KeyError" THEN 404 ELSE 200, "")
        /\ UNCHANGED <<now, circuit_breakers, cb, streak, last_state_change, monitor, scans, observed,
                   requests, agent, proxied>>

\* DELETE /internal/workers/{worker_id}?force=
DeregisterWorker(worker_id, force) ==
    LET r == unregister_worker(Reg, worker_id, force)
    IN  /\ SetRegistry(r)
        /\ ret' = Ret(IF force THEN "unregister_worker_force" ELSE "unregister_worker",
                      worker_id, r.exc, IF r.exc = "KeyError" THEN 404 ELSE 200, "")
        /\ UNCHANGED <<now, circuit_breakers, cb, streak, last_state_change, monitor, scans, observed,
                   requests, agent, proxied>>

\* register_worker(record) followed immediately by
\* unregister_worker(record.worker_id, force=True), as test_unregister_worker
\* makes the two calls; an exception of the first ends the sequence.  ret.out
\* is the record's model_id.
RegisterThenUnregister(worker_id, model_id, endpoint, capacity) ==
    LET record == WorkerRecord(worker_id, model_id, endpoint, capacity, now)
        r1 == register_worker(Reg, record)
        r2 == IF r1.exc # "" THEN r1 ELSE unregister_worker(r1, worker_id, TRUE)
    IN  /\ SetRegistry(r2)
        /\ ret' = Ret("register_then_unregister", worker_id, r2.exc, 0, model_id)
        /\ UNCHANGED <<now, circuit_breakers, cb, streak, last_state_change,
                       monitor, scans, observed,
                   requests, agent, proxied>>

\* registry.mark_unhealthy(worker_id), as the HealthChecker calls it
MarkUnhealthy(worker_id) ==
    LET r == mark_unhealthy(Reg, worker_id)
    IN  /\ SetRegistry(r)
        /\ ret' = Ret("mark_unhealthy", worker_id, r.exc, 0, "")
        /\ UNCHANGED <<now, circuit_breakers, cb, streak, last_state_change, monitor, scans, observed,
                   requests, agent, proxied>>

\* registry.remove_worker(worker_id), as the HealthChecker calls it
RemoveWorker(worker_id) ==
    LET r == remove_worker(Reg, worker_id)
    IN  /\ SetRegistry(r)
        /\ ret' = Ret("remove_worker", worker_id, r.exc, 0, "")
        /\ UNCHANGED <<now, circuit_breakers, cb, streak, last_state_change, monitor, scans, observed,
                   requests, agent, proxied>>

\* router.select_worker(model_id), as chat_completions calls it
SelectWorker(model_id) ==
    LET r == select_worker(Reg, circuit_breakers, model_id, now)
    IN  /\ circuit_breakers' = r.circuit_breakers
        /\ ret' = Ret("select_worker", model_id, r.exc, status_code(r.exc), r.selected)
        /\ UNCHANGED <<now, by_id, by_model, objs, cb, streak, last_state_change, monitor, scans, observed,
                   snapshot, requests, agent, proxied>>

\* router.record_success(worker_id)
RecordSuccess(worker_id) ==
    /\ circuit_breakers' = router_record_success(circuit_breakers, worker_id)
    /\ ret' = Ret("record_success", worker_id, "", 0, "")
    /\ UNCHANGED <<now, by_id, by_model, objs, cb, streak, last_state_change, monitor, scans, observed,
                   snapshot, requests, agent, proxied>>

\* router.record_failure(worker_id)
RecordFailure(worker_id) ==
    /\ get_circuit_breaker(circuit_breakers, worker_id)[worker_id].failure_count
           < MaxFailureCount
    /\ circuit_breakers' = router_record_failure(circuit_breakers, worker_id, now)
    /\ ret' = Ret("record_failure", worker_id, "", 0, "")
    /\ UNCHANGED <<now, by_id, by_model, objs, cb, streak, last_state_change, monitor, scans, observed,
                   snapshot, requests, agent, proxied>>

\* the instants at which the monitor and the workers act: around the
\* heartbeat timeout
MonitorInstants == {0, heartbeat_timeout, heartbeat_timeout + 1}

MonitorTick ==
    /\ \E t \in MonitorInstants : t > now /\ now' = t
    /\ ret' = Quiet
    /\ UNCHANGED <<by_id, by_model, objs, circuit_breakers, cb, streak,
                   last_state_change, monitor, scans, observed,
                   snapshot, requests, agent, proxied>>

\* the instants of two heartbeat outages: a worker heard at one of them is
\* stale at the next
OutageInstants == {0, heartbeat_timeout + 1, 2 * (heartbeat_timeout + 1)}

OutageTick ==
    /\ \E t \in OutageInstants : t > now /\ now' = t
    /\ ret' = Quiet
    /\ UNCHANGED <<by_id, by_model, objs, circuit_breakers, cb, streak,
                   last_state_change, monitor, scans, observed,
                   snapshot, requests, agent, proxied>>

\* scans once the loop stopped in position h: one more scan found
\* h.worker_id stale when the loop stopped at its probe
Counted(sc, h) ==
    IF h.pc = "probe"
        THEN (h.worker_id :>
                 (IF h.worker_id \in DOMAIN sc THEN sc[h.worker_id] ELSE 0) + 1) @@ sc
        ELSE sc

\* the monitor wakes up: _check_workers up to its first probe, or to its end
CheckWorkers ==
    /\ monitor.pc = "sleep"
    /\ monitor' = check_workers(monitor, Reg, now)
    /\ scans' = Counted(scans, monitor')
    /\ ret' = Ret("_check_workers", monitor'.worker_id, "", 0, "")
    /\ UNCHANGED <<now, by_id, by_model, objs, circuit_breakers, cb, streak,
                   last_state_change, observed,
                   snapshot, requests, agent, proxied>>

\* the probe of monitor.worker_id returns: the rest of _handle_timeout, then
\* the loop of _check_workers up to the next probe, or to its end.  The
\* scans of a worker start again from 0 with its probe-failure count.
ProbeReturns(healthy) ==
    /\ monitor.pc = "probe"
    /\ LET r == handle_timeout(monitor, Reg, monitor.worker_id, healthy)
           h == [monitor EXCEPT !.probe_failures = r.probe_failures]
           sc == IF monitor.worker_id \in DOMAIN r.probe_failures
                     THEN scans ELSE PopFailures(scans, monitor.worker_id)
       IN  /\ SetRegistry(r.registry)
           /\ monitor' = check_loop(h, monitor.workers, now)
           /\ scans' = Counted(sc, monitor')
    /\ ret' = Ret("_handle_timeout", monitor.worker_id, "", 0,
                  IF healthy THEN "True" ELSE "False")
    /\ UNCHANGED <<now, circuit_breakers, cb, streak, last_state_change, observed,
                   requests, agent, proxied>>

\* a caller takes registry.get_workers_for_model(model_id) and holds the list
\* it returns: list(workers.values()), the registry's own records
GetWorkersForModel(model_id) ==
    LET workers == get_workers_for_model(Reg, model_id)
    IN  /\ snapshot' = [i \in 1..Len(workers) |-> Held(TRUE, objs[workers[i]])]
        /\ ret' = Ret("get_workers_for_model", model_id, "", 0, "")
        /\ UNCHANGED <<now, by_id, by_model, objs, circuit_breakers, cb, streak,
                       last_state_change, monitor, scans, observed,
                       requests, agent, proxied>>

\* a caller takes registry.list_workers(model_id) and holds response.workers:
\* WorkerInfo objects built from the records' fields
ListWorkers(model_id) ==
    LET response == list_workers(Reg, model_id)
    IN  /\ snapshot' = [i \in 1..response.total |-> Held(FALSE, response.workers[i])]
        /\ ret' = Ret("list_workers", model_id, "", 0, "")
        /\ UNCHANGED <<now, by_id, by_model, objs, circuit_breakers, cb, streak,
                       last_state_change, monitor, scans, observed,
                       requests, agent, proxied>>

Untouched ==
    UNCHANGED <<now, by_id, by_model, objs, circuit_breakers, cb, streak,
                last_state_change, monitor, scans, snapshot, requests, observed>>

RequestIds == {"r1", "r2"}

\* POST /v1/chat/completions up to the forwarded call: the worker is selected
\* (or 404/503 is raised), then the POST is awaited or the StreamingResponse
\* is returned for the server to iterate
ChatSelect(r, model_id, stream) ==
    LET sel == select_worker(Reg, circuit_breakers, model_id, now)
    IN  /\ r \notin DOMAIN requests
        /\ circuit_breakers' = sel.circuit_breakers
        /\ requests' = (r :> [pc |-> IF sel.exc # "" THEN "done"
                                     ELSE IF stream THEN "streaming" ELSE "posting",
                              worker_id |-> sel.selected,
                              reports |-> <<>>]) @@ requests
        /\ ret' = Ret("chat_completions", r, sel.exc, status_code(sel.exc), sel.selected)
        /\ UNCHANGED <<now, by_id, by_model, objs, cb, streak, last_state_change,
                       monitor, scans, snapshot, agent, proxied, observed>>

\* the request r ends with the Router calls of reports
ChatEnds(r, outcome, reports) ==
    /\ circuit_breakers' = report(circuit_breakers, requests[r].worker_id, reports, now)
    /\ requests' = [requests EXCEPT ![r].pc = "done", ![r].reports = reports]
    /\ ret' = Ret("chat_completions", r, outcome, 0, requests[r].worker_id)
    /\ UNCHANGED <<now, by_id, by_model, objs, cb, streak, last_state_change,
                   monitor, scans, snapshot, agent, proxied, observed>>

\* the forwarded POST of unary request r returns or raises
UnaryReturns(r, outcome) ==
    /\ r \in DOMAIN requests
    /\ requests[r].pc = "posting"
    /\ ChatEnds(r, outcome, unary_reports(outcome))

\* the stream of request r ends
StreamEnds(r, outcome) ==
    /\ r \in DOMAIN requests
    /\ requests[r].pc = "streaming"
    /\ ChatEnds(r, outcome, stream_reports(outcome))

\* the requests routed to worker_id that have not ended
Routed(worker_id) ==
    {r \in DOMAIN requests :
        requests[r].worker_id = worker_id /\ requests[r].pc \in {"posting", "streaming"}}

\* the heartbeat of a running agent whose load counter stands at the number
\* of requests the Controller has forwarded to it and that have not ended
AgentHeartbeat(worker_id) ==
    WorkerHeartbeat(worker_id, Cardinality(Routed(worker_id)), "healthy")

\* start()
AgentStart ==
    /\ agent.pc = "new"
    /\ agent' = start(agent)
    /\ ret' = Ret("start", "", "", 0, "")
    /\ UNCHANGED proxied
    /\ Untouched

\* the Controller answers the registration POST, or the POST fails
RegisterReturns(accepted) ==
    /\ agent.pc = "registering"
    /\ agent' = register_returns(agent, accepted)
    /\ ret' = Ret("register", "",
                  IF agent'.pc = "start_failed" THEN "RuntimeError" ELSE "", 0,
                  IF accepted THEN "accepted" ELSE "rejected")
    /\ UNCHANGED proxied
    /\ Untouched

\* the sleep between two attempts is over
SleepReturns ==
    /\ agent.pc = "backoff"
    /\ agent' = sleep_returns(agent)
    /\ ret' = Ret("sleep", "", "", 0, "")
    /\ UNCHANGED proxied
    /\ Untouched

\* the heartbeat task runs for the first time, or its sleep is over; a task
\* that stop() cancelled gets CancelledError instead (HeartbeatCancelled)
HeartbeatRuns ==
    /\ agent.heartbeat_task \in {"created", "sleeping"}
    /\ agent.pc # "cancelling"
    /\ agent' = heartbeat_runs(agent)
    /\ ret' = Ret("heartbeat_runs", "", "", 0, "")
    /\ UNCHANGED proxied
    /\ Untouched

\* the heartbeat POST returns or fails
HeartbeatReturns(outcome) ==
    /\ agent.heartbeat_task = "posting"
    /\ agent.pc # "cancelling"
    /\ agent' = heartbeat_returns(agent, outcome)
    /\ ret' = Ret("heartbeat", "", IF outcome = "2xx" THEN "" ELSE outcome, 0, "")
    /\ UNCHANGED proxied
    /\ Untouched

\* stop(): by the lifespan after start() returned, or by a caller that never
\* started the client or whose start() raised
AgentStop ==
    /\ agent.pc \in {"new", "started", "start_failed"}
    /\ agent' = stop(agent)
    /\ ret' = Ret("stop", "", "", 0, "")
    /\ UNCHANGED proxied
    /\ Untouched

\* the cancelled heartbeat task ends
HeartbeatCancelled ==
    /\ agent.pc = "cancelling"
    /\ agent' = task_cancelled(agent)
    /\ ret' = Ret("cancelled", "", "", 0, "")
    /\ UNCHANGED proxied
    /\ Untouched

\* the deregistration DELETE returns or fails
DeleteReturns(outcome) ==
    /\ agent.pc = "deregistering"
    /\ agent' = delete_returns(agent, outcome)
    /\ ret' = Ret("deregister", "", IF outcome = "2xx" THEN "" ELSE outcome, 0, "")
    /\ UNCHANGED proxied
    /\ Untouched

\* increment/decrement pairs made by direct callers of the client
MaxPairs == 4
PairIds == 1..MaxPairs

CallIds == {"c1", "c2", "c3"}

\* the position of request or pair k ("idle" before its first call)
Position(k) == IF k \in DOMAIN proxied THEN proxied[k] ELSE "idle"

\* a caller makes the increment_load() of its pair
IncrementLoad(p) ==
    /\ Position(p) = "idle"
    /\ agent' = increment_load(agent)
    /\ proxied' = (p :> "incremented") @@ proxied
    /\ ret' = Ret("increment_load", "", "", 0, "")
    /\ Untouched

\* the same caller makes the decrement_load() of its pair
DecrementLoad(p) ==
    /\ Position(p) = "incremented"
    /\ agent' = decrement_load(agent)
    /\ proxied' = (p :> "done") @@ proxied
    /\ ret' = Ret("decrement_load", "", "", 0, "")
    /\ Untouched

\* decrement_load() with no increment before it (test_load_never_negative)
StrayDecrementLoad ==
    /\ agent' = decrement_load(agent)
    /\ ret' = Ret("decrement_load", "stray", "", 0, "")
    /\ UNCHANGED proxied
    /\ Untouched

\* proxy_chat_completion(payload), or the first iteration of
\* proxy_chat_completion_stream(payload), up to the backend call
ProxyBegins(c, stream) ==
    /\ Position(c) = "idle"
    /\ agent' = increment_load(agent)
    /\ proxied' = (c :> IF stream THEN "streaming" ELSE "posting") @@ proxied
    /\ ret' = Ret("proxy_begins", c, "", 0, "")
    /\ Untouched

\* the backend call of request c ends with outcome; the request is over
ProxyEnds(c, outcome) ==
    /\ Position(c) \in {"posting", "streaming"}
    /\ outcome = "abandoned" => Position(c) = "streaming"
    /\ agent' = proxy_exit(agent, outcome)
    /\ proxied' = (c :> "idle") @@ proxied
    /\ ret' = Ret("proxy_ends", c, IF outcome = "2xx" THEN "" ELSE outcome, 0, "")
    /\ Untouched

\* WorkerRegistry() and Router(registry) as the Controller's lifespan builds them
ConstructController ==
    /\ now = 0
    /\ by_id = <<>>
    /\ by_model = <<>>
    /\ objs = <<>>
    /\ circuit_breakers = <<>>
    /\ cb = CircuitBreaker(failure_threshold, recovery_timeout)
    /\ streak = 0
    /\ last_state_change = 0
    /\ monitor = HealthChecker
    /\ scans = <<>>
    /\ snapshot = <<>>
    /\ requests = NoRequests
    /\ proxied = NoRequests
    /\ ret = Quiet

Construct ==
    /\ ConstructController
    /\ agent = RegistrationClient(retry_count, retry_delay)

InitRegistry == Construct /\ observed = RegistryCalls

Init == Construct /\ observed = RouterCalls

\* The registry on its own: every call with every argument.
NextRegistry ==
    \/ Tick
    \/ \E w \in WorkerIds, m \in ModelIds, e \in Endpoints, c \in Capacities :
           RegisterWorker(w, m, e, c)
    \/ \E w \in WorkerIds, l \in Loads, s \in Statuses : WorkerHeartbeat(w, l, s)
    \/ \E w \in WorkerIds, force \in BOOLEAN : DeregisterWorker(w, force)
    \/ \E w \in WorkerIds : MarkUnhealthy(w)
    \/ \E w \in WorkerIds : RemoveWorker(w)
    \/ \E w \in WorkerIds, m \in ModelIds, e \in Endpoints, c \in Capacities :
           RegisterThenUnregister(w, m, e, c)

SpecRegistry == InitRegistry /\ [][NextRegistry]_vars

\* The registry with the router.  A worker process registers with the
\* capacity of its configuration (settings.capacity), whichever model it serves.
Next ==
    \/ Tick
    \/ \E w \in WorkerIds, e \in Endpoints :
           \E m \in ConfiguredModels[w] : RegisterWorker(w, m, e, ConfiguredCapacity[w])
    \/ \E w \in WorkerIds, l \in Loads, s \in Statuses : WorkerHeartbeat(w, l, s)
    \/ \E w \in WorkerIds, force \in BOOLEAN : DeregisterWorker(w, force)
    \/ \E w \in WorkerIds : MarkUnhealthy(w)
    \/ \E w \in WorkerIds : RemoveWorker(w)
    \/ \E m \in ModelIds : SelectWorker(m)
    \/ \E w \in WorkerIds : RecordSuccess(w)
    \/ \E w \in FailingWorkers : RecordFailure(w)

Spec == Init /\ [][Next]_vars

----------------------------------------------------------------------------
(* The registry with the HealthChecker's task, the workers' heartbeats and *)
(* deregistrations, and the router's selections.                           *)

\* what an idle worker reports
IdleLoads == {0}

InitMonitor == Construct /\ observed = MonitorCalls

NextMonitor ==
    \/ MonitorTick
    \/ \E w \in WorkerIds, e \in Endpoints :
           \E m \in ConfiguredModels[w] : RegisterWorker(w, m, e, ConfiguredCapacity[w])
    \/ \E w \in WorkerIds, l \in IdleLoads, s \in Statuses : WorkerHeartbeat(w, l, s)
    \/ \E w \in WorkerIds, force \in BOOLEAN : DeregisterWorker(w, force)
    \/ CheckWorkers
    \/ \E healthy \in BOOLEAN : ProbeReturns(healthy)
    \/ \E m \in ModelIds : SelectWorker(m)

SpecMonitor == InitMonitor /\ [][NextMonitor]_vars

\* The same over two outages, without the router.
NextOutages ==
    \/ OutageTick
    \/ \E w \in WorkerIds, e \in Endpoints :
           \E m \in ConfiguredModels[w] : RegisterWorker(w, m, e, ConfiguredCapacity[w])
    \/ \E w \in WorkerIds, l \in IdleLoads, s \in Statuses : WorkerHeartbeat(w, l, s)
    \/ \E w \in WorkerIds, force \in BOOLEAN : DeregisterWorker(w, force)
    \/ CheckWorkers
    \/ \E healthy \in BOOLEAN : ProbeReturns(healthy)

SpecOutages == InitMonitor /\ [][NextOutages]_vars

\* The workers of LostWorkers died: they send no heartbeat, no request to
\* deregister, and every probe fails (the other workers are probed only
\* when stale, and then are as dead).  The monitor's task is scheduled
\* fairly: it wakes up from its sleep, and a probe returns within the
\* client's timeout.
LostWorkers == {"w1"}

NextLost ==
    \/ MonitorTick
    \/ \E w \in WorkerIds, e \in Endpoints :
           \E m \in ConfiguredModels[w] : RegisterWorker(w, m, e, ConfiguredCapacity[w])
    \/ \E w \in WorkerIds \ LostWorkers, l \in IdleLoads, s \in Statuses :
           WorkerHeartbeat(w, l, s)
    \/ \E w \in WorkerIds \ LostWorkers, force \in BOOLEAN : DeregisterWorker(w, force)
    \/ CheckWorkers
    \/ ProbeReturns(FALSE)

SpecLost ==
    /\ InitMonitor
    /\ [][NextLost]_vars
    /\ WF_vars(CheckWorkers)
    /\ WF_vars(ProbeReturns(FALSE))

----------------------------------------------------------------------------
(* The registry with a caller that holds the snapshot a call returned      *)
(* while other calls are made.                                             *)

InitSnapshot == Construct /\ observed = SnapshotCalls

NextSnapshot ==
    \/ \E w \in WorkerIds, e \in Endpoints :
           \E m \in ConfiguredModels[w] : RegisterWorker(w, m, e, ConfiguredCapacity[w])
    \/ \E w \in WorkerIds, l \in IdleLoads, s \in Statuses : WorkerHeartbeat(w, l, s)
    \/ \E w \in WorkerIds, force \in BOOLEAN : DeregisterWorker(w, force)
    \/ \E w \in WorkerIds : MarkUnhealthy(w)
    \/ \E w \in WorkerIds : RemoveWorker(w)
    \/ \E m \in ModelIds : GetWorkersForModel(m)
    \/ \E m \in ModelIds \cup {""} : ListWorkers(m)

SpecSnapshot == InitSnapshot /\ [][NextSnapshot]_vars

----------------------------------------------------------------------------
(* The worker's load counter: with direct callers (SpecLoad, as            *)
(* tests/worker/test_registration.py), and with the ProxyHandler's         *)
(* requests as its only callers (SpecProxy).                               *)

InitLoad == Construct /\ observed = LoadCalls

NextLoad ==
    \/ \E p \in PairIds : IncrementLoad(p)
    \/ \E p \in PairIds : DecrementLoad(p)
    \/ StrayDecrementLoad

SpecLoad == InitLoad /\ [][NextLoad]_vars

NextProxy ==
    \/ \E c \in CallIds, stream \in BOOLEAN : ProxyBegins(c, stream)
    \/ \E c \in CallIds, outcome \in ProxyOutcomes : ProxyEnds(c, outcome)

SpecProxy == InitLoad /\ [][NextProxy]_vars

----------------------------------------------------------------------------
(* The Controller's chat route over registered workers.                    *)

InitChat == Construct /\ observed = ChatCalls

NextChat ==
    \/ \E w \in WorkerIds, e \in Endpoints :
           \E m \in ConfiguredModels[w] : RegisterWorker(w, m, e, ConfiguredCapacity[w])
    \/ \E r \in RequestIds, m \in ModelIds, stream \in BOOLEAN : ChatSelect(r, m, stream)
    \/ \E r \in RequestIds, outcome \in UnaryOutcomes : UnaryReturns(r, outcome)
    \/ \E r \in RequestIds, outcome \in StreamOutcomes : StreamEnds(r, outcome)

SpecChat == InitChat /\ [][NextChat]_vars

----------------------------------------------------------------------------
(* The chat route over workers of small capacity that heartbeat their     *)
(* load.                                                                   *)

AdvertisedCapacities == {1, 2}

NextCapacity ==
    \/ \E w \in WorkerIds, e \in Endpoints, c \in AdvertisedCapacities :
           \E m \in ConfiguredModels[w] : RegisterWorker(w, m, e, c)
    \/ \E w \in WorkerIds : AgentHeartbeat(w)
    \/ \E r \in RequestIds, m \in ModelIds, stream \in BOOLEAN : ChatSelect(r, m, stream)
    \/ \E r \in RequestIds, outcome \in UnaryOutcomes : UnaryReturns(r, outcome)
    \/ \E r \in RequestIds, outcome \in StreamOutcomes : StreamEnds(r, outcome)

SpecCapacity == InitChat /\ [][NextCapacity]_vars

----------------------------------------------------------------------------
(* The RegistrationClient from construction to stop(), with every         *)
(* retry_count up to MaxRetryCount and delays below, within and above the *)
(* cap.  The settings put no constraint on either (config.py).            *)

MaxRetryCount == 5
RetryCounts == 0..MaxRetryCount
RetryDelays == {5, 40, 100}

InitAgent ==
    /\ ConstructController
    /\ \E rc \in RetryCounts, rd \in RetryDelays :
           agent = RegistrationClient(rc, rd)
    /\ observed = AgentCalls

NextAgent ==
    \/ AgentStart
    \/ \E accepted \in BOOLEAN : RegisterReturns(accepted)
    \/ SleepReturns
    \/ HeartbeatRuns
    \/ \E outcome \in HttpOutcomes : HeartbeatReturns(outcome)
    \/ AgentStop
    \/ HeartbeatCancelled
    \/ \E outcome \in HttpOutcomes : DeleteReturns(outcome)

SpecAgent == InitAgent /\ [][NextAgent]_vars

----------------------------------------------------------------------------
(* A CircuitBreaker on its own, as tests/controller/test_circuit_breaker.py *)
(* drives it.  For these calls ret.id is the state the call was made in    *)
(* and ret.out the value returned.                                         *)

\* streak after a call other than record_failure that took cb to c
StreakAfter(c) ==
    IF c.state = "closed" /\ c.failure_count = 0 THEN 0 ELSE -1

CbRecordSuccess ==
    /\ cb' = record_success(cb)
    /\ streak' = StreakAfter(cb')
    /\ last_state_change' = IF cb.state = "half_open" THEN now ELSE last_state_change
    /\ ret' = Ret("cb.record_success", cb.state, "", 0, "")
    /\ UNCHANGED <<now, by_id, by_model, objs, circuit_breakers, monitor, scans, observed,
                   snapshot, requests, agent, proxied>>

CbRecordFailure ==
    /\ cb.failure_count < MaxFailureCount
    /\ cb' = record_failure(cb, now)
    /\ streak' = IF streak >= 0 THEN streak + 1 ELSE -1
    /\ last_state_change' = IF cb'.state # cb.state THEN now ELSE last_state_change
    /\ ret' = Ret("cb.record_failure", cb.state, "", 0, "")
    /\ UNCHANGED <<now, by_id, by_model, objs, circuit_breakers, monitor, scans, observed,
                   snapshot, requests, agent, proxied>>

CbIsAvailable ==
    LET r == is_available(cb, now)
    IN  /\ cb' = r.cb
        /\ streak' = IF cb' = cb THEN streak ELSE StreakAfter(cb')
        /\ last_state_change' = IF cb'.state # cb.state THEN now ELSE last_state_change
        /\ ret' = Ret("cb.is_available", cb.state, "", 0,
                      IF r.result THEN "True" ELSE "False")
        /\ UNCHANGED <<now, by_id, by_model, objs, circuit_breakers, monitor, scans, observed,
                   snapshot, requests, agent, proxied>>

CbReset ==
    /\ cb' = reset(cb)
    /\ streak' = StreakAfter(cb')
    /\ last_state_change' = now
    /\ ret' = Ret("cb.reset", cb.state, "", 0, "")
    /\ UNCHANGED <<now, by_id, by_model, objs, circuit_breakers, monitor, scans, observed,
                   snapshot, requests, agent, proxied>>

\* CircuitBreaker(failure_threshold=F, recovery_timeout=T)
InitBreaker ==
    /\ now = 0
    /\ by_id = <<>>
    /\ by_model = <<>>
    /\ objs = <<>>
    /\ circuit_breakers = <<>>
    /\ \E F \in 1..MaxThreshold, T \in Timeouts : cb = CircuitBreaker(F, T)
    /\ streak = 0
    /\ last_state_change = 0
    /\ monitor = HealthChecker
    /\ scans = <<>>
    /\ snapshot = <<>>
    /\ requests = NoRequests
    /\ agent = RegistrationClient(retry_count, retry_delay)
    /\ proxied = NoRequests
    /\ observed = BreakerCalls
    /\ ret = Quiet

NextBreaker ==
    \/ Tick
    \/ CbRecordSuccess
    \/ CbRecordFailure
    \/ CbIsAvailable
    \/ CbReset

SpecBreaker == InitBreaker /\ [][NextBreaker]_vars

----------------------------------------------------------------------------
(* Registry claims, checked under SpecRegistry *)

BucketIds == UNION {Range(by_model[m]) : m \in DOMAIN by_model}

\* C1: after any sequence of registry calls the worker ids of by_id are
\* exactly the worker ids found in the buckets of by_model, and every record
\* sits in the bucket of its own model_id and in no other bucket.
C1_IndexesAgree ==
    /\ Range(by_id) = BucketIds
    /\ \A w \in Range(by_id) \cup BucketIds :
           /\ w \in DOMAIN objs
           /\ objs[w].worker_id = w
           /\ \A m \in DOMAIN by_model :
                  (w \in Range(by_model[m])) <=> (m = objs[w].model_id)

\* a forced unregistration has just removed one of two workers that were
\* registered, the other one staying in both indices
C1_Witness ==
    /\ ret.op = "unregister_worker_force"
    /\ ret.exc = ""
    /\ Len(by_id) = 1
    /\ BucketIds = Range(by_id)

NoDuplicateKeys(s) == \A i, j \in 1..Len(s) : s[i] = s[j] => i = j

\* C2: register_worker with a worker_id that is present, whatever the status
\* of its record, raises ValueError (AlreadyRegistered), answered with HTTP
\* 409, and leaves by_id, by_model and every record unchanged; no index ever
\* holds an id twice.
C2_DuplicateRejected ==
    /\ [](/\ NoDuplicateKeys(by_id)
          /\ \A m \in DOMAIN by_model : NoDuplicateKeys(by_model[m]))
    /\ [][(ret'.op = "register_worker" /\ ret'.id \in Range(by_id))
              => /\ ret'.exc = "ValueError"
                 /\ ret'.code = 409
                 /\ UNCHANGED <<by_id, by_model, objs>>]_vars

\* a registration was refused for an id whose record is draining
C2_Witness ==
    /\ ret.op = "register_worker"
    /\ ret.code = 409
    /\ ret.id \in Range(by_id)
    /\ objs[ret.id].status = "draining"

\* C3: no bucket of by_model is ever empty: removing the last worker of a
\* model, by forced unregistration or by remove_worker, deletes the bucket.
C3_NoEmptyBucket == \A m \in DOMAIN by_model : by_model[m] # <<>>

\* a forced unregistration succeeded on the last worker registered, which
\* was the last of its model: its bucket is gone
C3_Witness ==
    /\ ret.op = "unregister_worker_force"
    /\ ret.exc = ""
    /\ by_id = <<>>
    /\ DOMAIN by_model = {}

\* C18: register_worker(w) on a registry that does not hold w.worker_id,
\* followed immediately by unregister_worker(w.worker_id, force=True), raises
\* nothing and leaves by_id and by_model (and every record) as they were
\* before the registration, also when w was the only worker of its model.
C18_RegisterUnregisterRoundTrip ==
    [][\A w \in WorkerIds \ Range(by_id) :
           \A m \in ModelIds, e \in Endpoints, c \in Capacities :
               RegisterThenUnregister(w, m, e, c) =>
                   /\ ret'.exc = ""
                   /\ by_id' = by_id
                   /\ by_model' = by_model
                   /\ objs' = objs]_vars

\* the two calls have just been made for the only worker of its model, on a
\* registry that holds another worker
C18_Witness ==
    /\ ret.op = "register_then_unregister"
    /\ ret.exc = ""
    /\ ret.id \notin Range(by_id)
    /\ ret.out \notin DOMAIN by_model
    /\ by_id # <<>>

\* C19: in every state the registry reaches, update_heartbeat(w, L, s) on a
\* registered worker w raises nothing, sets that record's current_load to L,
\* status to s and last_heartbeat to the current time and changes nothing
\* else in the registry; list_workers() and get_worker(w) then report
\* current_load = L for w.
C19_HeartbeatUpdates ==
    \A w \in Range(by_id) : \A l \in Loads, s \in Statuses :
        LET r == update_heartbeat(Reg, w, l, s, now)
            response == list_workers(r, "")
        IN  /\ r.exc = ""
            /\ r.by_id = by_id
            /\ r.by_model = by_model
            /\ r.objs = [objs EXCEPT ![w] =
                            [objs[w] EXCEPT !.current_load = l,
                                            !.status = s,
                                            !.last_heartbeat = Some(now)]]
            /\ get_worker(r, w) # None
            /\ get_worker(r, w)[1].current_load = l
            /\ response.total = Len(by_id)
            /\ \E i \in 1..response.total : response.workers[i].worker_id = w
            /\ \A i \in 1..response.total :
                   response.workers[i].worker_id = w =>
                       response.workers[i].current_load = l

\* a heartbeat has just reported a load for a worker registered with another
\* worker of the same model, some time after its registration
C19_Witness ==
    /\ ret.op = "update_heartbeat"
    /\ ret.exc = ""
    /\ ret.id \in Range(by_id)
    /\ objs[ret.id].current_load = 99999998
    /\ objs[ret.id].last_heartbeat = Some(now)
    /\ now > 0
    /\ Len(by_id) = 2

\* C20: on a worker_id absent from the registry (the id the call was made
\* with, ret.id), update_heartbeat and
\* unregister_worker (forced or not) raise KeyError, which their routes
\* answer with HTTP 404, mark_unhealthy and remove_worker return normally,
\* and all four leave the registry as it was.
C20_AbsentWorker ==
    [][\A w \in WorkerIds \ Range(by_id) : ret'.id = w =>
           /\ \A l \in Loads, s \in Statuses :
                  WorkerHeartbeat(w, l, s) =>
                      ret'.exc = "KeyError" /\ ret'.code = 404 /\ UNCHANGED registry
           /\ \A force \in BOOLEAN :
                  DeregisterWorker(w, force) =>
                      ret'.exc = "KeyError" /\ ret'.code = 404 /\ UNCHANGED registry
           /\ MarkUnhealthy(w) => ret'.exc = "" /\ UNCHANGED registry
           /\ RemoveWorker(w) => ret'.exc = "" /\ UNCHANGED registry]_vars

\* a heartbeat for a worker_id the registry does not hold has just been
\* answered with 404, the registry holding another worker
C20_Witness ==
    /\ ret.op = "update_heartbeat"
    /\ ret.exc = "KeyError"
    /\ ret.code = 404
    /\ ret.id \notin Range(by_id)
    /\ by_id # <<>>

\* the fields of get_worker(w) that are fixed at registration
ImmutableFields(record) ==
    [model_id |-> record.model_id,
     endpoint |-> record.endpoint,
     capacity |-> record.capacity]

\* C21: no registry call changes the model_id, endpoint or capacity that
\* get_worker(w) returns for a worker w that is registered before and after
\* the call, that is between its registration and its first forced
\* unregistration or removal.
C21_ImmutableFields ==
    [][\A w \in Range(by_id) \cap Range(by_id') :
           /\ get_worker(Reg, w) # None
           /\ get_worker(Reg', w) # None
           /\ ImmutableFields(get_worker(Reg', w)[1])
                  = ImmutableFields(get_worker(Reg, w)[1])]_vars

\* a worker registered with capacity 100000000 has since been marked
\* unhealthy, with a reported load and a later heartbeat than its first
C21_Witness ==
    /\ ret.op = "mark_unhealthy"
    /\ ret.id \in Range(by_id)
    /\ objs[ret.id].capacity = 100000000
    /\ objs[ret.id].current_load = 99999999
    /\ objs[ret.id].status = "unhealthy"
    /\ objs[ret.id].last_heartbeat # Some(0)

----------------------------------------------------------------------------
(* Router claims, checked under Spec.  They are stated on the state in     *)
(* which select_worker has just returned: ret.id is the model asked for,   *)
(* ret.out the worker returned, ret.exc the error raised.                  *)

Selected == ret.op = "select_worker" /\ ret.out # ""
Bucket(m) == get_workers_for_model(Reg, m)
BreakerState(w) ==
    IF w \in DOMAIN circuit_breakers THEN circuit_breakers[w].state ELSE "closed"

\* the worker is healthy and its breaker lets requests through
Eligible(w) == objs[w].status = "healthy" /\ BreakerState(w) # "open"

\* w's breaker has counted failure_threshold failures, the last of them less
\* than recovery_timeout ago
RecentlyTripped(w) ==
    /\ w \in DOMAIN circuit_breakers
    /\ circuit_breakers[w].failure_count >= failure_threshold
    /\ circuit_breakers[w].last_failure # None
    /\ now - circuit_breakers[w].last_failure[1] < recovery_timeout

\* C4: select_worker never returns a worker whose breaker is open when it
\* returns; with w1 and w2 both healthy at load 0 and failure_threshold
\* failures recorded on w1, a select made less than recovery_timeout after
\* w1's last failure returns w2.
C4_NeverOpenBreaker ==
    /\ Selected => BreakerState(ret.out) # "open"
    /\ (/\ ret.op = "select_worker"
        /\ Range(Bucket(ret.id)) = {"w1", "w2"}
        /\ \A w \in {"w1", "w2"} :
               objs[w].status = "healthy" /\ objs[w].current_load = 0
        /\ RecentlyTripped("w1")
        /\ BreakerState("w2") = "closed")
       => ret.out = "w2"

\* w1's breaker opened at time 0; 29 seconds later select returns w2, w1
\* being healthy, idle and first in the bucket
C4_Witness ==
    /\ Selected
    /\ ret.out = "w2"
    /\ Bucket(ret.id) = <<"w1", "w2">>
    /\ objs["w1"].status = "healthy" /\ objs["w1"].current_load = 0
    /\ objs["w2"].current_load = 0
    /\ BreakerState("w1") = "open"
    /\ circuit_breakers["w1"].last_failure = Some(0)
    /\ now = recovery_timeout - 1

\* a / b < c / d for a, c >= 0 and b, d > 0, compared exactly (by continued
\* fractions, which keeps every intermediate value below the operands)
RECURSIVE RatLess(_, _, _, _)
RatLess(a, b, c, d) ==
    IF a \div b # c \div d THEN a \div b < c \div d
    ELSE IF c % d = 0 THEN FALSE
    ELSE IF a % b = 0 THEN TRUE
    ELSE RatLess(d, c % d, b, a % b)

\* C5: a worker returned by select_worker(model) is registered for that
\* model, is healthy, has current_load < capacity, and no other worker of the
\* model that is healthy, breaker-available and below capacity has a strictly
\* smaller current_load / capacity, the ratios being compared exactly.
C5_LeastLoadedExact ==
    Selected =>
        /\ ret.out \in Range(Bucket(ret.id))
        /\ objs[ret.out].model_id = ret.id
        /\ objs[ret.out].status = "healthy"
        /\ objs[ret.out].current_load < objs[ret.out].capacity
        /\ \A v \in Range(Bucket(ret.id)) :
               (Eligible(v) /\ objs[v].current_load < objs[v].capacity)
                   => ~RatLess(objs[v].current_load, objs[v].capacity,
                               objs[ret.out].current_load, objs[ret.out].capacity)

\* C6: a record whose status is draining or unhealthy is never returned by
\* select_worker; after unregister_worker(w, force=False) get_worker(w) still
\* returns the record, with status draining; select on a model whose only
\* worker is draining raises NoWorkerAvailableError.
C6_DrainingNotRouted ==
    /\ [](Selected => objs[ret.out].status = "healthy")
    /\ [](\A w \in WorkerIds :
              (/\ ret.op = "select_worker"
               /\ Bucket(ret.id) = <<w>>
               /\ objs[w].status = "draining")
                  => ret.out = "" /\ ret.exc = "NoWorkerAvailableError")
    /\ [][\A w \in WorkerIds :
              (w \in Range(by_id) /\ DeregisterWorker(w, FALSE))
                  => /\ get_worker(Reg', w) # None
                     /\ get_worker(Reg', w)[1].status = "draining"
                     /\ get_worker(Reg', w)[1] = [objs[w] EXCEPT !.status = "draining"]]_vars

\* select has just failed on a model whose only worker is draining, idle,
\* and has a closed breaker
C6_Witness ==
    /\ ret.op = "select_worker"
    /\ ret.exc = "NoWorkerAvailableError"
    /\ \E w \in WorkerIds :
           /\ Bucket(ret.id) = <<w>>
           /\ objs[w].status = "draining"
           /\ objs[w].current_load = 0
           /\ BreakerState(w) = "closed"

\* C7: select_worker(model) raises NoWorkerAvailableError (status code 404)
\* exactly when no worker is registered for the model or none of its workers
\* is both healthy and breaker-available, whatever their loads.
C7_NoWorkerAvailable ==
    ret.op = "select_worker" =>
        /\ (ret.exc = "NoWorkerAvailableError")
               <=> (\A w \in Range(Bucket(ret.id)) : ~Eligible(w))
        /\ (ret.exc = "NoWorkerAvailableError") => (ret.code = 404 /\ ret.out = "")

\* select has just raised NoWorkerAvailableError on a model whose workers
\* are all at capacity, none of them being eligible
C7_Witness ==
    /\ ret.op = "select_worker"
    /\ ret.exc = "NoWorkerAvailableError"
    /\ Bucket(ret.id) # <<>>
    /\ \A w \in Range(Bucket(ret.id)) : objs[w].current_load >= objs[w].capacity

----------------------------------------------------------------------------
(* Circuit breaker claims, checked under SpecBreaker: a breaker built with *)
(* failure_threshold F in 1..MaxThreshold and recovery_timeout T >= 1.     *)

\* C9: counting from a closed breaker with failure_count 0, after fewer than
\* F record_failure calls with no other call changing the breaker in between
\* the state is closed; after exactly F of them the state is open, and
\* is_available(), asked before recovery_timeout has elapsed, returns False.
C9_OpensAtThreshold ==
    /\ (0 <= streak /\ streak < cb.failure_threshold) => cb.state = "closed"
    /\ streak = cb.failure_threshold =>
           /\ cb.state = "open"
           /\ cb.last_failure # None
           /\ (now - cb.last_failure[1] < cb.recovery_timeout)
                  => /\ ~is_available(cb, now).result
                     /\ is_available(cb, now).cb.state = "open"

\* a breaker with threshold 3 has counted three failures in a row, and
\* is_available() has just returned False
C9_Witness ==
    /\ cb.failure_threshold = 3
    /\ streak = 3
    /\ cb.state = "open"
    /\ ret.op = "cb.is_available"
    /\ ret.out = "False"

\* C10 as claimed: after any record_success call, in whichever state it is
\* made, failure_count = 0.
C10_Original == ret.op = "cb.record_success" => cb.failure_count = 0

\* C10 as amended: after a record_success call made in state closed or
\* half_open, failure_count = 0; a record_success call made in state open
\* leaves failure_count as it was.
C10_SuccessResets ==
    [][CbRecordSuccess =>
           IF cb.state = "open"
               THEN cb'.failure_count = cb.failure_count
               ELSE cb'.failure_count = 0]_vars

\* record_success has just closed a half-open breaker, whose count of at
\* least F failures is back to 0
C10_Witness ==
    /\ ret.op = "cb.record_success"
    /\ ret.id = "half_open"
    /\ cb.state = "closed"
    /\ cb.failure_count = 0

\* C11 as claimed: once the breaker has been in state open for
\* recovery_timeout, the next is_available() returns True and leaves the
\* state half_open; an is_available() made before that returns False and
\* leaves the state open.
C11_Original ==
    [][(CbIsAvailable /\ cb.state = "open") =>
           IF now - last_state_change >= cb.recovery_timeout
               THEN ret'.out = "True" /\ cb'.state = "half_open"
               ELSE ret'.out = "False" /\ cb'.state = "open"]_vars

\* C11 as amended: once recovery_timeout has elapsed since the last failure
\* recorded on an open breaker (a failure recorded while open starts the
\* window again), the next is_available() returns True and leaves the state
\* half_open; an is_available() made before that returns False and leaves
\* the state open.
C11_RecoveryWindow ==
    [][(CbIsAvailable /\ cb.state = "open") =>
           /\ cb.last_failure # None
           /\ IF now - cb.last_failure[1] >= cb.recovery_timeout
                  THEN ret'.out = "True" /\ cb'.state = "half_open"
                  ELSE ret'.out = "False" /\ cb'.state = "open"]_vars

\* is_available() asked of an open breaker has just returned True and left it
\* half_open, its last failure recovery_timeout ago
C11_Witness ==
    /\ ret.op = "cb.is_available"
    /\ ret.id = "open"
    /\ ret.out = "True"
    /\ cb.state = "half_open"
    /\ cb.last_failure # None
    /\ now - cb.last_failure[1] = cb.recovery_timeout

\* C12: in half_open, record_success moves the breaker to closed with
\* failure_count 0 and last_failure None, record_failure moves it to open
\* with last_failure the current time, and no call other than these two and
\* reset() takes the breaker out of half_open.
C12_HalfOpenTransitions ==
    [][cb.state = "half_open" =>
           /\ CbRecordSuccess =>
                  /\ cb'.state = "closed"
                  /\ cb'.failure_count = 0
                  /\ cb'.last_failure = None
           /\ CbRecordFailure =>
                  /\ cb'.state = "open"
                  /\ cb'.last_failure = Some(now)
           /\ cb'.state # "half_open" =>
                  CbRecordSuccess \/ CbRecordFailure \/ CbReset]_vars

\* record_success has just closed a half-open breaker and cleared its
\* failure state
C12_Witness ==
    /\ ret.op = "cb.record_success"
    /\ ret.id = "half_open"
    /\ cb.state = "closed"
    /\ cb.last_failure = None
    /\ last_state_change = now

\* C31: reset() on a breaker in whichever state and with whichever
\* failure_count yields state closed, failure_count 0 and last_failure None,
\* and a second reset() changes nothing more.
C31_ResetRestoresClosed ==
    /\ [](LET r == reset(cb)
          IN  /\ r.state = "closed"
              /\ r.failure_count = 0
              /\ r.last_failure = None
              /\ reset(r) = r)
    /\ [][CbReset => cb' = [cb EXCEPT !.state = "closed", !.failure_count = 0,
                                      !.last_failure = None]]_vars

\* reset() has just closed an open breaker that had counted failures
C31_Witness ==
    /\ ret.op = "cb.reset"
    /\ ret.id = "open"
    /\ cb.state = "closed"
    /\ cb.failure_count = 0
    /\ cb.last_failure = None
    /\ cb.failure_threshold = 3

\* C36: for a breaker with failure_threshold F >= 1 driven only by
\* record_success, record_failure, is_available and reset: a closed breaker
\* has failure_count < F, and an open or half-open breaker has last_failure
\* set.
C36_BreakerInvariant ==
    /\ cb.failure_threshold >= 1
    /\ cb.state = "closed" => cb.failure_count < cb.failure_threshold
    /\ cb.state \in {"open", "half_open"} => cb.last_failure # None

\* a closed breaker one failure short of its threshold of 3
C36_Witness ==
    /\ ret.op = "cb.record_failure"
    /\ cb.state = "closed"
    /\ cb.failure_threshold = 3
    /\ cb.failure_count = 2
    /\ cb.last_failure # None

\* C37: an open breaker stops being open only by is_available() once
\* recovery_timeout has elapsed since last_failure, which leaves it half_open,
\* or by reset(); record_success on an open breaker changes nothing of it and
\* record_failure keeps it open, so no outcome takes it from open to closed.
C37_LeavesOpen ==
    [][cb.state = "open" =>
           /\ CbRecordSuccess => cb' = cb
           /\ CbRecordFailure => cb'.state = "open"
           /\ cb'.state = "half_open" =>
                  /\ CbIsAvailable
                  /\ cb.last_failure # None
                  /\ now - cb.last_failure[1] >= cb.recovery_timeout
           /\ cb'.state = "closed" => CbReset]_vars

\* record_success has just been made on an open breaker, which stays open
\* with its failures
C37_Witness ==
    /\ ret.op = "cb.record_success"
    /\ ret.id = "open"
    /\ cb.state = "open"
    /\ cb.failure_count >= cb.failure_threshold
    /\ cb.last_failure # None

----------------------------------------------------------------------------
(* HealthChecker claims, checked under SpecMonitor *)

\* the age of a record's heartbeat is within heartbeat_timeout
Fresh(w) ==
    /\ objs[w].last_heartbeat # None
    /\ now - objs[w].last_heartbeat[1] <= heartbeat_timeout

\* C13: whenever the monitor applies its registry update (mark_unhealthy or
\* remove_worker, at the return of a probe), every record whose status is
\* draining at that moment stays registered with status draining, whatever
\* was interleaved between the monitor's snapshot and the update.
C13_DrainingUntouched ==
    [][\A healthy \in BOOLEAN : ProbeReturns(healthy) =>
           \A w \in Range(by_id) : objs[w].status = "draining" =>
               /\ w \in Range(by_id')
               /\ objs'[w].status = "draining"]_vars

\* C14: whenever the monitor applies its registry update, every record whose
\* last_heartbeat is at most heartbeat_timeout old at that moment stays
\* registered with the status it had, including when the heartbeat arrived
\* between the monitor's snapshot and the return of its probe.
C14_FreshUntouched ==
    [][\A healthy \in BOOLEAN : ProbeReturns(healthy) =>
           \A w \in Range(by_id) : Fresh(w) =>
               /\ w \in Range(by_id')
               /\ objs'[w].status = objs[w].status]_vars

\* the monitor's probe-failure count for w (self._probe_failures.get(w, 0))
ProbeFailures(w) ==
    IF w \in DOMAIN monitor.probe_failures THEN monitor.probe_failures[w] ELSE 0

InSomeBucket(w) == \E m \in DOMAIN by_model : w \in Range(by_model[m])

\* C15: at each failed probe of a worker found stale and not draining, the
\* monitor's probe-failure count for it goes up by one; when it reaches
\* probe_failures_threshold the record is gone from by_id and from every
\* bucket and the count entry is cleared; while it is below, the count is
\* kept, the monitor removes nothing, and the record (if still registered)
\* has status unhealthy.
C15_ProbeFailureCount ==
    [][\A w \in WorkerIds : (ProbeReturns(FALSE) /\ w = monitor.worker_id) =>
           IF ProbeFailures(w) + 1 >= probe_failures_threshold
               THEN /\ w \notin Range(by_id')
                    /\ ~InSomeBucket(w)'
                    /\ w \notin DOMAIN monitor'.probe_failures
               ELSE /\ monitor'.probe_failures[w] = ProbeFailures(w) + 1
                    /\ by_id' = by_id
                    /\ by_model' = by_model
                    /\ w \in Range(by_id) => objs'[w].status = "unhealthy"]_vars

\* the third probe in a row of a worker has just failed: the worker is in
\* no index and has no count entry
C15_Witness ==
    /\ ret.op = "_handle_timeout"
    /\ ret.out = "False"
    /\ ret.id \notin Range(by_id)
    /\ ~InSomeBucket(ret.id)
    /\ ret.id \notin DOMAIN monitor.probe_failures
    /\ monitor.pc = "sleep"

\* C16: when the probe of a stale worker succeeds the monitor clears its
\* probe-failure count and leaves the record, if registered, with status
\* unhealthy; select_worker returns only records whose status is healthy;
\* and a registered record goes from unhealthy to healthy by nothing but an
\* update_heartbeat with status healthy, which always leaves it healthy.
C16_ProbeSuccessKeepsUnhealthy ==
    /\ [][\A w \in WorkerIds : (ProbeReturns(TRUE) /\ w = monitor.worker_id) =>
              /\ w \notin DOMAIN monitor'.probe_failures
              /\ w \in Range(by_id) =>
                     /\ w \in Range(by_id')
                     /\ objs'[w].status = "unhealthy"]_vars
    /\ []((ret.op = "select_worker" /\ ret.out # "") =>
              /\ ret.out \in Range(by_id)
              /\ objs[ret.out].status = "healthy")
    /\ [][\A w \in Range(by_id) \cap Range(by_id') :
              (objs[w].status = "unhealthy" /\ objs'[w].status = "healthy") =>
                  \E l \in IdleLoads : WorkerHeartbeat(w, l, "healthy")]_vars
    /\ [][\A w \in Range(by_id), l \in IdleLoads :
              WorkerHeartbeat(w, l, "healthy") =>
                  /\ objs'[w].status = "healthy"
                  /\ passes_filter(Reg', circuit_breakers, w, now)]_vars

\* the probe of a stale worker has just succeeded: the record is unhealthy
\* and has no count entry
C16_Witness ==
    /\ ret.op = "_handle_timeout"
    /\ ret.out = "True"
    /\ ret.id \in Range(by_id)
    /\ objs[ret.id].status = "unhealthy"
    /\ ret.id \notin DOMAIN monitor.probe_failures

----------------------------------------------------------------------------
(* Checked under SpecLost: dead workers and a fairly scheduled monitor *)

\* the scans that found w stale since its probe-failure count was last 0
Scans(w) == IF w \in DOMAIN scans THEN scans[w] ELSE 0

\* C17: a registered, non-draining worker with a stale heartbeat that sends
\* no further heartbeat and whose every probe fails is eventually removed
\* from the registry; nothing but the monitor's _handle_timeout removes it,
\* and it does so at the return of the probe of the
\* probe_failures_threshold-th scan that found it stale, counted from a
\* probe-failure count of 0.
C17_LostWorkerRemoved ==
    /\ \A w \in LostWorkers :
           (w \in Range(by_id) /\ objs[w].status # "draining" /\ ~Fresh(w))
               ~> (w \notin Range(by_id))
    /\ [][\A w \in LostWorkers : (w \in Range(by_id) /\ w \notin Range(by_id')) =>
              /\ ProbeReturns(FALSE)
              /\ monitor.worker_id = w
              /\ Scans(w) = probe_failures_threshold]_vars
    /\ [](\A w \in LostWorkers :
              (w \in Range(by_id) /\ Scans(w) >= probe_failures_threshold) =>
                  /\ Scans(w) = probe_failures_threshold
                  /\ monitor.pc = "probe"
                  /\ monitor.worker_id = w)

\* the probe of the third scan that found w1 stale has just failed, and w1
\* is gone
C17_Witness ==
    /\ ret.op = "_handle_timeout"
    /\ ret.id = "w1"
    /\ ret.out = "False"
    /\ "w1" \notin Range(by_id)
    /\ ~InSomeBucket("w1")
    /\ Scans("w1") = 0

----------------------------------------------------------------------------
(* Snapshot claim, checked under SpecSnapshot *)

\* C22: every element of a snapshot returned by get_workers_for_model or
\* list_workers reads, whatever calls were made since, as it read when the
\* snapshot was returned.
C22_SnapshotsIndependent ==
    \A i \in 1..Len(snapshot) : Read(snapshot[i]) = snapshot[i].seen

----------------------------------------------------------------------------
(* Worker load counter claims *)

\* C23 (SpecLoad): the load counter is never negative, a decrement at zero
\* leaves it at zero, and once every one of the MaxPairs increment/decrement
\* pairs is done, in whichever order they were interleaved, it is zero.
C23_LoadCounter ==
    /\ agent.current_load >= 0
    /\ decrement_load([agent EXCEPT !.current_load = 0]).current_load = 0
    /\ (\A p \in PairIds : Position(p) = "done") => agent.current_load = 0

\* all pairs are done, the last call being the decrement of one of them
C23_Witness ==
    /\ \A p \in PairIds : Position(p) = "done"
    /\ ret.op = "decrement_load"
    /\ ret.id = ""
    /\ agent.current_load = 0

\* the requests whose backend call has started and not ended
InFlight == {c \in CallIds : Position(c) \in {"posting", "streaming"}}

\* C24 (SpecProxy): the load counter equals the number of proxied requests,
\* unary and streaming, whose backend call has started and not ended; every
\* way a request ends takes exactly one off the counter, which is zero when
\* no request is in flight.
C24_LoadIsInFlight ==
    /\ [](agent.current_load = Cardinality(InFlight))
    /\ [][\A c \in CallIds, outcome \in ProxyOutcomes : ProxyEnds(c, outcome) =>
              agent'.current_load = agent.current_load - 1]_vars

\* a streaming request has just been abandoned while two others are in
\* flight
C24_Witness ==
    /\ ret.op = "proxy_ends"
    /\ ret.exc = "abandoned"
    /\ Cardinality(InFlight) = 2
    /\ agent.current_load = 2

----------------------------------------------------------------------------
(* RegistrationClient lifecycle claims (SpecAgent) *)

RECURSIVE Doubled(_, _)
\* delay doubled n times
Doubled(delay, n) == IF n = 0 THEN delay ELSE 2 * Doubled(delay, n - 1)

RECURSIVE Sum(_)
Sum(seq) == IF seq = <<>> THEN 0 ELSE Head(seq) + Sum(Tail(seq))

\* C25: at most retry_count registration attempts are made; the wait after
\* the k-th failed attempt is retry_delay doubled k-1 times, capped at 60, so
\* no wait exceeds 60; no wait follows a success or the last attempt; a
\* success on attempt 3 has waited retry_delay + 2*retry_delay in all.
C25_Backoff ==
    /\ agent.registrations <= agent.retry_count
    /\ \A k \in 1..Len(agent.waits) :
           /\ k < agent.retry_count
           /\ agent.waits[k] = Min(Doubled(agent.retry_delay, k - 1), 60)
           /\ agent.waits[k] <= 60
    /\ Len(agent.waits) =
           IF agent.pc = "backoff" THEN agent.attempt
           ELSE IF agent.attempt = 0 THEN 0 ELSE agent.attempt - 1
    /\ (agent.registered /\ agent.attempt = 3) =>
           Sum(agent.waits) = agent.retry_delay + 2 * agent.retry_delay

\* C26: whatever retry_count >= 0 and whichever attempts are accepted, the
\* heartbeat task exists (and so sends heartbeats) only with registered true,
\* and a start() that made all its attempts in vain has raised and launched
\* no heartbeat task: start() returns only registered.
C26_RegisterBeforeHeartbeat ==
    /\ agent.heartbeat_task # "None" => agent.registered
    /\ agent.pc = "started" => agent.registered
    /\ agent.pc = "start_failed" => agent.heartbeat_task = "None"

\* C27: when the DELETE is issued the heartbeat task is over; at most one
\* DELETE is issued, and only by a registered agent; no heartbeat POST is in
\* flight or sent once the DELETE is issued; the client is closed only after
\* it; and whatever the DELETE's outcome, stop() completes.
C27_StopSequence ==
    /\ [](agent.deletes <= 1)
    /\ [](agent.deletes = 1 =>
              /\ agent.registered
              /\ agent.heartbeat_task \in {"cancelled", "done"}
              /\ ~agent.running)
    /\ [](agent.pc = "deregistering" => agent.deletes = 1 /\ agent.client = "open")
    /\ [](agent.client = "closed" => agent.pc = "stopped")
    /\ [][\A outcome \in HttpOutcomes : DeleteReturns(outcome) =>
              agent'.pc = "stopped" /\ agent'.client = "closed"]_vars

\* stop() has completed after a DELETE that failed
C27_Witness ==
    /\ ret.op = "deregister"
    /\ ret.exc = "error"
    /\ agent.pc = "stopped"
    /\ agent.deletes = 1
    /\ agent.heartbeat_task = "cancelled"

\* C28: a heartbeat that fails, by a transport error or any non-2xx answer,
\* 404 included, leaves the loop asleep until its next tick, and at that tick
\* a running agent posts another heartbeat; once start() is over no
\* registration POST is made.
C28_HeartbeatLoopSurvives ==
    /\ [][\A outcome \in HttpOutcomes \ {"2xx"} : HeartbeatReturns(outcome) =>
              agent'.heartbeat_task = "sleeping" /\ agent'.running]_vars
    /\ []((agent.running /\ agent.heartbeat_task = "sleeping") =>
              /\ agent.pc = "started"
              /\ heartbeat_runs(agent).heartbeat_task = "posting")
    /\ [](agent.running /\ agent.pc = "started" => agent.heartbeat_task # "done")
    /\ [][agent.pc \notin {"new", "registering", "backoff"} =>
              agent'.registrations = agent.registrations]_vars

\* the Controller has answered a heartbeat of the running agent with 404
C28_Witness ==
    /\ ret.op = "heartbeat"
    /\ ret.exc = "404"
    /\ agent.running
    /\ agent.registered
    /\ agent.heartbeat_task = "sleeping"

\* C39 (SpecOutages): the monitor's probe-failure count of a worker changes
\* only when a probe of that worker returns, and goes down only when the
\* probe succeeded or the count reached probe_failures_threshold: heartbeats,
\* unregistrations and registrations leave it; so a worker that is healthy
\* again with probe_failures_threshold - 1 failures counted is removed by the
\* first probe that fails.
C39_ProbeFailuresAccumulate ==
    /\ [][\A w \in WorkerIds :
              ProbeFailures(w)' # ProbeFailures(w) =>
                  /\ monitor.pc = "probe"
                  /\ w = monitor.worker_id
                  /\ ProbeReturns(TRUE) \/ ProbeReturns(FALSE)]_vars
    /\ [][\A w \in WorkerIds :
              ProbeFailures(w)' < ProbeFailures(w) =>
                  \/ ProbeReturns(TRUE)
                  \/ ProbeFailures(w) + 1 >= probe_failures_threshold]_vars
    /\ [][\A w \in WorkerIds :
              (/\ ProbeReturns(FALSE)
               /\ w = monitor.worker_id
               /\ w \in Range(by_id)
               /\ objs[w].status = "healthy"
               /\ ProbeFailures(w) = probe_failures_threshold - 1) =>
                  w \notin Range(by_id')]_vars

\* w1 failed two probes in a first outage, sent a heartbeat, and is being
\* probed for the first time in its second outage
C39_Witness ==
    /\ monitor.pc = "probe"
    /\ monitor.worker_id = "w1"
    /\ "w1" \in Range(by_id)
    /\ objs["w1"].status = "healthy"
    /\ objs["w1"].last_heartbeat = Some(heartbeat_timeout + 1)
    /\ now = 2 * (heartbeat_timeout + 1)
    /\ ProbeFailures("w1") = probe_failures_threshold - 1

\* C40 (SpecMonitor): once a non-forced DELETE has left a worker's record
\* draining, and the worker sends no more heartbeats, the record stays
\* registered and draining through every step, the monitor's included, until
\* a forced unregister; and as long as it is registered every registration
\* with its worker_id raises ValueError, so that each attempt of a restarted
\* agent is rejected.
C40_DrainedRecordLingers ==
    [][\A w \in WorkerIds :
           (/\ w \in Range(by_id)
            /\ objs[w].status = "draining"
            /\ ~DeregisterWorker(w, TRUE)
            /\ ~\E l \in IdleLoads, st \in Statuses : WorkerHeartbeat(w, l, st)) =>
               /\ w \in Range(by_id')
               /\ objs'[w].status = "draining"
               /\ \A m \in ModelIds, e \in Endpoints :
                      register_worker(Reg', WorkerRecord(w, m, e, ConfiguredCapacity[w], now')).exc
                          = "ValueError"]_vars

----------------------------------------------------------------------------
(* Router claims on selection order and on breakers, checked under Spec *)

\* the place of key k in the dict d
Place(d, k) == CHOOSE i \in 1..Len(d) : d[i] = k

\* v and w have the same load_ratio
Tied(v, w) ==
    /\ ~FloatLess(load_ratio(objs[v]), load_ratio(objs[w]))
    /\ ~FloatLess(load_ratio(objs[w]), load_ratio(objs[v]))

\* C32: a select_worker call made again for the same model right after a
\* select_worker call, nothing else having happened in between, returns (or
\* raises) what the first did; each bucket lists its workers in the order
\* they registered; and of the healthy, breaker-available, below-capacity
\* workers that have the load_ratio of the worker returned, none registered
\* before it.
C32_SelectStable ==
    /\ ret.op = "select_worker" =>
           LET again == select_worker(Reg, circuit_breakers, ret.id, now)
           IN  /\ again.selected = ret.out
               /\ again.exc = ret.exc
               /\ again.circuit_breakers = circuit_breakers
    /\ \A m \in DOMAIN by_model :
           by_model[m] = SelectSeq(by_id, LAMBDA w : objs[w].model_id = m)
    /\ Selected =>
           \A v \in Range(Bucket(ret.id)) :
               (Eligible(v) /\ below_capacity(objs[v]) /\ Tied(v, ret.out)) =>
                   Place(by_id, ret.out) <= Place(by_id, v)

\* w2 registered before w1, both are idle and routable, and select has
\* returned w2
C32_Witness ==
    /\ Selected
    /\ ret.out = "w2"
    /\ Bucket(ret.id) = <<"w2", "w1">>
    /\ Eligible("w1") /\ Eligible("w2")
    /\ objs["w1"].current_load = 0
    /\ objs["w2"].current_load = 0

\* C33: the breakers are the Router's, kept by worker_id: no registry call,
\* forced unregistration and removal included, changes any of them; a worker
\* id that registers while the breaker kept for it counted its last failure
\* less than recovery_timeout ago is returned by no select, then and for as
\* long as that is so; and record_success or record_failure for an id,
\* registered or not, leaves a breaker for it.
C33_BreakerOutlivesRecord ==
    /\ [][ret'.op \notin {"select_worker", "record_success", "record_failure"} =>
              circuit_breakers' = circuit_breakers]_vars
    /\ [][\A w \in WorkerIds :
              (w \notin Range(by_id) /\ w \in Range(by_id') /\ RecentlyTripped(w)) =>
                  \A m \in ModelIds :
                      select_worker(Reg', circuit_breakers', m, now').selected # w]_vars
    /\ [](\A w \in WorkerIds : RecentlyTripped(w) => ~(Selected /\ ret.out = w))
    /\ [][\A w \in WorkerIds :
              (ret'.op \in {"record_success", "record_failure"} /\ ret'.id = w) =>
                  w \in DOMAIN circuit_breakers']_vars

\* select finds no worker for a model whose only worker, w1, is healthy, idle
\* and was registered after the last of the failures that opened the breaker
\* kept for w1
C33_Witness ==
    /\ ret.op = "select_worker"
    /\ ret.exc = "NoWorkerAvailableError"
    /\ Bucket(ret.id) = <<"w1">>
    /\ objs["w1"].status = "healthy"
    /\ objs["w1"].current_load = 0
    /\ RecentlyTripped("w1")
    /\ objs["w1"].last_heartbeat[1] > circuit_breakers["w1"].last_failure[1]

\* C34: unregister_worker(w, force=False) on a registered worker leaves it
\* draining, and from then on, as long as its record is not removed, no call,
\* a heartbeat carrying status healthy included, makes a select return w.
C34_DrainingSticks ==
    /\ [][\A w \in WorkerIds :
              (w \in Range(by_id) /\ DeregisterWorker(w, FALSE)) =>
                  objs'[w].status = "draining"]_vars
    /\ [][\A w \in WorkerIds :
              (/\ w \in Range(by_id)
               /\ objs[w].status = "draining"
               /\ w \in Range(by_id')) =>
                  \A m \in ModelIds :
                      select_worker(Reg', circuit_breakers', m, now').selected # w]_vars

\* C38: asked of a half-open breaker, is_available() returns True and leaves
\* it half_open, whenever asked; a select that returned a worker whose
\* breaker is half_open returns it again if made again before an outcome is
\* recorded; and a breaker stops being half_open only by a record_success or
\* record_failure for its worker.
C38_HalfOpenAdmitsAll ==
    /\ [](\A w \in DOMAIN circuit_breakers, t \in Instants :
              (circuit_breakers[w].state = "half_open" /\ t >= now) =>
                  is_available(circuit_breakers[w], t) =
                      [cb |-> circuit_breakers[w], result |-> TRUE])
    /\ []((Selected /\ BreakerState(ret.out) = "half_open") =>
              LET again == select_worker(Reg, circuit_breakers, ret.id, now)
              IN  /\ again.selected = ret.out
                  /\ again.circuit_breakers[ret.out].state = "half_open")
    /\ [][\A w \in WorkerIds :
              (BreakerState(w) = "half_open" /\ BreakerState(w)' # "half_open") =>
                  (RecordSuccess(w) \/ RecordFailure(w))]_vars

\* select has returned w1, whose breaker is half_open and has counted
\* failure_threshold failures
C38_Witness ==
    /\ Selected
    /\ ret.out = "w1"
    /\ BreakerState("w1") = "half_open"
    /\ circuit_breakers["w1"].failure_count >= failure_threshold

----------------------------------------------------------------------------
(* Controller route claims *)

\* C29 (SpecChat): every request for which select_worker returned a worker
\* has, once over, made exactly one Router call for that worker,
\* record_success or record_failure, and none before; no way of ending makes
\* none or two.
C29_OneOutcome ==
    \A r \in DOMAIN requests :
        requests[r].worker_id # "" =>
            Len(requests[r].reports) = IF requests[r].pc = "done" THEN 1 ELSE 0

\* C35 (SpecCapacity): the requests routed to a worker and not yet ended
\* are never more than the capacity the worker advertised, however the
\* requests and the worker's heartbeats interleave.
C35_CapacityRespected ==
    \A w \in Range(by_id) : Cardinality(Routed(w)) <= objs[w].capacity

\* C30 (Spec): the circuit_state that list_workers() and get_worker() report
\* for a worker is the state of the worker's breaker in the Router.
C30_CircuitStateMirrored ==
    /\ \A w \in Range(by_id) :
           get_worker(Reg, w) = Some([objs[w] EXCEPT !.circuit_state = BreakerState(w)])
    /\ LET worker_infos == list_workers(Reg, "").workers
       IN  \A i \in 1..Len(worker_infos) :
               worker_infos[i].circuit_state = BreakerState(worker_infos[i].worker_id)

====
